---- MODULE Spec2Model ----
(***************************************************************************)
(* A model of into.py, the WS281X LED pattern runner: the Animation State  *)
(* (AppState), the start-up sources (state_from_args,                      *)
(* state_options_from_headless_data, apply_cli_overrides), the Command     *)
(* Interpreter (handle_key), Input Response (apply_pi_input_response), the *)
(* four pattern steps, the run loop in its interactive and headless        *)
(* branches, and the shutdown of the module-level try/finally.             *)
(***************************************************************************)
EXTENDS Integers, Sequences, FiniteSets, TLC

VARIABLES
    args,          \* argparse.Namespace returned by parse_args()
    data,          \* the record returned by load_headless_config()
    env,           \* the process environment: ttys, driver, strip length
    state,         \* AppState
    options,       \* RunOptions
    test_mode,     \* main(): test_mode
    strip,         \* the module-level strip (the Pixel Sink) or NoStrip
    pc,            \* position of the control flow
    frame_count,   \* run_loop: frame_count
    key,           \* run_loop: key, the keystroke of the current iteration
    exc,           \* the exception propagating, "None" when there is none
    term,          \* terminal settings of stdin: mode and saved old_settings
    hist           \* history of the run (observation only)

vars == <<args, data, env, state, options, test_mode, strip, pc,
          frame_count, key, exc, term, hist>>

----------------------------------------------------------------------------
(* Bounds of the model *)

\* the largest strip length (LED_COUNT) explored
MaxLedCount == 2
\* the largest number of loop iterations explored when no frame limit stops
\* the loop, and the largest frame limit given on the command line
MaxFrames == 2
\* the same two bounds for the specification of the pattern engine
MaxEngineLeds == 3
MaxEngineFrames == 4
\* iterations explored in the emergency-only specification: three passes of
\* the SOS waveform and a little more
MaxSOSFrames == 86
\* the scenes of the pattern engine: the longer strip and the number of frames
\* of a run with keystrokes
MaxSceneLeds == 5
MaxSceneFrames == 6
\* iterations explored in a run without keystrokes: every value of
\* rainbow_offset occurs and the offset wraps
MaxRainbowFrames == 260

\* the render runs: strips of 4 and of MaxRenderLeds pixels, MaxRenderFrames
\* frames; MaxRenderLeds pixels need a second line on a narrow terminal
MaxRenderLeds == 11
MaxRenderFrames == 3

----------------------------------------------------------------------------
(* Program constants *)

LED_BRIGHTNESS == 255
DEFAULT_INPUT_PIN == 23
DEFAULT_ANALOG_MAX == 4095
DEFAULT_ANALOG_PATH == "/sys/bus/iio/devices/iio:device0/in_voltage0_raw"
BRIGHTNESS_STEP == 16

Color(r, g, b) == ((r % 256) * 65536) + ((g % 256) * 256) + (b % 256)

BLACK == Color(0, 0, 0)

\* EMERGENCY_COLORS, 0-indexed as in the source
EMERGENCY_COLORS ==
    [i \in 0..2 |-> CASE i = 0 -> Color(255, 0, 0)
                      [] i = 1 -> Color(0, 0, 255)
                      [] i = 2 -> Color(255, 255, 255)]

\* EMERGENCY_SOS_STEPS as a sequence (1-indexed here; the source indexes from 0)
EMERGENCY_SOS_STEPS ==
    << 1, 0, 1, 0, 1, 0,
       1, 1, 1, 0, 1, 1, 1, 0, 1, 1, 1, 0,
       1, 0, 1, 0, 1, 0,
       0, 0, 0, 0 >>

\* the keys of a dict, in insertion order
PATTERN_NAMES == << "1", "2", "3", "4" >>
SPEED_LABELS == << "1", "2", "3" >>
CHASE_COLORS == << "1", "2", "3", "4" >>
RANDOM_PALETTES == << "1", "2", "3" >>
BOUNCE_COLORS == << "1", "2", "3", "4" >>
INPUT_MODES == {"off", "digital", "analog"}

Range(seq) == {seq[i] : i \in 1..Len(seq)}

\* mutant: the rows of Chase and Random exchanged
SPEED_MAP_exchanged(pattern, speed) ==
    CASE pattern = "1" -> (CASE speed = "1" -> 300 [] speed = "2" -> 120 [] speed = "3" -> 50)
      [] pattern = "2" -> (CASE speed = "1" -> 80  [] speed = "2" -> 30  [] speed = "3" -> 10)
      [] pattern = "3" -> (CASE speed = "1" -> 60  [] speed = "2" -> 20  [] speed = "3" -> 8)

\* SPEED_MAP[pattern][speed], in milliseconds
SPEED_MAP(pattern, speed) ==
    CASE pattern = "1" -> (CASE speed = "1" -> 80  [] speed = "2" -> 30  [] speed = "3" -> 10)
      [] pattern = "2" -> (CASE speed = "1" -> 300 [] speed = "2" -> 120 [] speed = "3" -> 50)
      [] pattern = "3" -> (CASE speed = "1" -> 60  [] speed = "2" -> 20  [] speed = "3" -> 8)

EMERGENCY_DELAY_MS == 120

ChaseColorValue(c) ==
    CASE c = "1" -> Color(255, 140, 0)
      [] c = "2" -> Color(0, 255, 0)
      [] c = "3" -> Color(0, 0, 255)
      [] c = "4" -> 0

BounceColorValue(c) ==
    CASE c = "1" -> Color(0, 0, 255)
      [] c = "2" -> Color(180, 0, 255)
      [] c = "3" -> Color(255, 255, 255)
      [] c = "4" -> 0

\* RANDOM_PALETTES[p][1]; the empty set stands for None (any RGB)
RandomPaletteValue(p) ==
    CASE p = "1" -> {}
      [] p = "2" -> {Color(255, 0, 0), Color(255, 120, 0), Color(255, 255, 0)}
      [] p = "3" -> {Color(0, 255, 255), Color(0, 0, 255), Color(180, 0, 255)}

\* the colors random.randint draws for the unrestricted palette in this model
AnyRGBSample == {Color(0, 0, 0), Color(200, 200, 200)}

----------------------------------------------------------------------------
(* Pure helpers *)

Min(a, b) == IF a <= b THEN a ELSE b
Max(a, b) == IF a >= b THEN a ELSE b

clamp_brightness(value) == Max(0, Min(255, value))

\* mutant: the SOS pattern offered in every mode
available_patterns_all(emergency_only) ==
    IF emergency_only THEN << "4" >> ELSE << "1", "2", "3", "4" >>

available_patterns(emergency_only) ==
    IF emergency_only THEN << "4" >> ELSE << "1", "2", "3" >>

IndexOf(seq, x) == CHOOSE i \in 1..Len(seq) : seq[i] = x

\* mutant: the index is not taken modulo the number of keys, the last key stays
cycle_choice_nowrap(current, choices) ==
    IF current \in Range(choices)
    THEN choices[Min(IndexOf(choices, current) + 1, Len(choices))]
    ELSE "ValueError"

\* cycle_choice: keys.index(current) raises ValueError when current is absent;
\* "ValueError" stands for that
cycle_choice(current, choices) ==
    IF current \in Range(choices)
    THEN choices[(IndexOf(choices, current) % Len(choices)) + 1]
    ELSE "ValueError"

\* mutant: the second and third ramp do not rebase pos (pos -= 85, pos -= 170)
wheel_channels_norebase(position) ==
    LET pos == 255 - position IN
    IF pos < 85 THEN << 255 - pos * 3, 0, pos * 3 >>
    ELSE IF pos < 170 THEN << 0, pos * 3, 255 - pos * 3 >>
    ELSE << pos * 3, 255 - pos * 3, 0 >>

\* wheel: the red, green and blue values it hands to Color
wheel_channels(position) ==
    LET pos == 255 - position IN
    IF pos < 85 THEN << 255 - pos * 3, 0, pos * 3 >>
    ELSE IF pos < 170 THEN << 0, (pos - 85) * 3, 255 - (pos - 85) * 3 >>
    ELSE << (pos - 170) * 3, 255 - (pos - 170) * 3, 0 >>

wheel(position) ==
    Color(wheel_channels(position)[1], wheel_channels(position)[2], wheel_channels(position)[3])

\* mutant: Emergency SOS sleeps by the speed label, like Chase
get_delay_by_speed(st) ==
    SPEED_MAP(IF st.pattern = "4" THEN "1" ELSE st.pattern, st.speed)

get_delay(st) ==
    IF st.pattern = "4" THEN EMERGENCY_DELAY_MS ELSE SPEED_MAP(st.pattern, st.speed)

----------------------------------------------------------------------------
(* Values of the command line and of the settings record *)

\* an optional integer: argparse leaves an option that was not given at None
NoneInt == [has |-> FALSE, v |-> 0]
SomeInt(n) == [has |-> TRUE, v |-> n]

\* a JSON value: ty is "none" (key absent or null), "bool", "int", "str",
\* "inf" (the float that json.loads gives for 1e999 or Infinity) or "other"
\* (list, dict); a "str" carries in num/n whether and as what int() parses it
PyNone == [ty |-> "none", b |-> FALSE, n |-> 0, s |-> "", num |-> FALSE]
PyBool(b) == [ty |-> "bool", b |-> b, n |-> IF b THEN 1 ELSE 0, s |-> "", num |-> TRUE]
PyInt(n) == [ty |-> "int", b |-> FALSE, n |-> n, s |-> "", num |-> TRUE]
PyStr(s) == [ty |-> "str", b |-> FALSE, n |-> 0, s |-> s, num |-> FALSE]
PyNumStr(s, n) == [ty |-> "str", b |-> FALSE, n |-> n, s |-> s, num |-> TRUE]
PyOther == [ty |-> "other", b |-> FALSE, n |-> 0, s |-> "", num |-> FALSE]
PyInf == [ty |-> "inf", b |-> FALSE, n |-> 1000000, s |-> "", num |-> FALSE]

\* int(value) of an infinite float raises OverflowError, which as_int does
\* not catch
as_int_raises(value) == value.ty = "inf"

\* int(value), with TypeError and ValueError caught
as_int(value, default) ==
    CASE value.ty = "int" -> value.n
      [] value.ty = "bool" -> value.n
      [] value.ty = "str" -> (IF value.num THEN value.n ELSE default)
      [] OTHER -> default

as_bool(value, default) ==
    CASE value.ty = "bool" -> value.b
      [] value.ty = "str" ->
            (IF value.s \in {"1", "true", "yes", "y", "on"} THEN TRUE
             ELSE IF value.s \in {"0", "false", "no", "n", "off"} THEN FALSE
             ELSE default)
      [] OTHER -> default

as_str(value, default) == IF value.ty = "str" THEN value.s ELSE default

\* as_float followed by max(0.0, .): durations are kept in whole seconds;
\* float(inf) is inf, here a duration longer than any run
as_float(value, default) == IF value.ty = "inf" THEN value.n ELSE as_int(value, default)

----------------------------------------------------------------------------
(* AppState and RunOptions *)

AppState(pattern, speed, chase_color, random_palette, bounce_color, brightness, max_brightness, input_mode, input_pin, analog_path, analog_max, emergency_only) ==
    [pattern |-> pattern, speed |-> speed, chase_color |-> chase_color,
     random_palette |-> random_palette, bounce_color |-> bounce_color,
     max_brightness |-> max_brightness, brightness |-> brightness,
     input_mode |-> input_mode, input_pin |-> input_pin,
     analog_path |-> analog_path, analog_max |-> analog_max,
     emergency_only |-> emergency_only,
     emergency_step |-> 0, emergency_color_index |-> 0,
     chase_position |-> 0, bounce_position |-> 0, bounce_direction |-> 1,
     rainbow_offset |-> 0]

RunOptions(frames, duration_seconds, start_delay_seconds) ==
    [frames |-> frames, duration_seconds |-> duration_seconds,
     start_delay_seconds |-> start_delay_seconds]

normalize_pattern_for_mode(st) ==
    IF st.emergency_only THEN [st EXCEPT !.pattern = "4"]
    ELSE IF st.pattern = "4" THEN [st EXCEPT !.pattern = "1"]
    ELSE st

OrStr(value, default) == IF value = "None" \/ value = "" THEN default ELSE value
OrInt(opt, default) == IF opt.has THEN opt.v ELSE default

state_from_args_state(a) ==
    LET st == AppState(OrStr(a.pattern, "1"), OrStr(a.speed, "2"),
                       OrStr(a.chase_color, "1"), OrStr(a.random_palette, "1"),
                       OrStr(a.bounce_color, "1"),
                       clamp_brightness(OrInt(a.brightness, LED_BRIGHTNESS)),
                       clamp_brightness(OrInt(a.max_brightness, LED_BRIGHTNESS)),
                       OrStr(a.pi_input_mode, "off"),
                       OrInt(a.pi_input_pin, DEFAULT_INPUT_PIN),
                       OrStr(a.analog_path, DEFAULT_ANALOG_PATH),
                       Max(1, OrInt(a.analog_max, DEFAULT_ANALOG_MAX)),
                       a.emergency_only)
        st2 == [st EXCEPT !.brightness = Min(st.brightness, st.max_brightness)]
    IN  normalize_pattern_for_mode(st2)

state_from_args_options(a) ==
    RunOptions(Max(0, OrInt(a.frames, 0)),
               Max(0, OrInt(a.duration_seconds, 0)),
               Max(0, OrInt(a.start_delay_seconds, 0)))

\* data.get("input") / data.get("run") when that is a dict, else {}
EmptyInput == [mode |-> PyNone, pin |-> PyNone, analog_path |-> PyNone, analog_max |-> PyNone]
EmptyRun == [frames |-> PyNone, duration_seconds |-> PyNone, start_delay_seconds |-> PyNone]

InputData(d) == IF d.input_is_dict THEN d.input ELSE EmptyInput
RunData(d) == IF d.run_is_dict THEN d.run ELSE EmptyRun

Member(x, seq, default) == IF x \in Range(seq) THEN x ELSE default

headless_state(d) ==
    LET inp == InputData(d)
        mode == as_str(inp.mode, "off")
        st == AppState(
                Member(as_str(d.pattern, "1"), PATTERN_NAMES, "1"),
                Member(as_str(d.speed, "2"), SPEED_LABELS, "2"),
                Member(as_str(d.chase_color, "1"), CHASE_COLORS, "1"),
                Member(as_str(d.random_palette, "1"), RANDOM_PALETTES, "1"),
                Member(as_str(d.bounce_color, "1"), BOUNCE_COLORS, "1"),
                clamp_brightness(as_int(d.brightness, LED_BRIGHTNESS)),
                clamp_brightness(as_int(d.max_brightness, LED_BRIGHTNESS)),
                IF mode \in INPUT_MODES THEN mode ELSE "off",
                as_int(inp.pin, DEFAULT_INPUT_PIN),
                as_str(inp.analog_path, DEFAULT_ANALOG_PATH),
                Max(1, as_int(inp.analog_max, DEFAULT_ANALOG_MAX)),
                as_bool(d.emergency_only, FALSE))
    IN  normalize_pattern_for_mode(st)

headless_options(d) ==
    LET run == RunData(d) IN
    RunOptions(Max(0, as_int(run.frames, 0)),
               Max(0, as_float(run.duration_seconds, 0)),
               Max(0, as_float(run.start_delay_seconds, 0)))

headless_test_mode(d) == as_bool(d.test, FALSE)

\* the exception state_options_from_headless_data raises on d, "None" when it
\* returns: data.get on a JSON value that is not an object, int() of an
\* infinite number
headless_raises(d) ==
    IF ~d.is_dict THEN "AttributeError"
    ELSE IF \/ as_int_raises(d.brightness) \/ as_int_raises(d.max_brightness)
            \/ as_int_raises(InputData(d).pin) \/ as_int_raises(InputData(d).analog_max)
            \/ as_int_raises(RunData(d).frames)
         THEN "OverflowError"
    ELSE "None"

apply_cli_overrides_state(st, a) ==
    LET s1 == [st EXCEPT
                 !.pattern = IF a.pattern # "None" THEN a.pattern ELSE @,
                 !.speed = IF a.speed # "None" THEN a.speed ELSE @,
                 !.chase_color = IF a.chase_color # "None" THEN a.chase_color ELSE @,
                 !.random_palette = IF a.random_palette # "None" THEN a.random_palette ELSE @,
                 !.bounce_color = IF a.bounce_color # "None" THEN a.bounce_color ELSE @,
                 !.max_brightness = IF a.max_brightness.has
                                    THEN clamp_brightness(a.max_brightness.v) ELSE @,
                 !.brightness = IF a.brightness.has
                                THEN clamp_brightness(a.brightness.v) ELSE @]
        s2 == [s1 EXCEPT
                 !.brightness = Min(s1.brightness, s1.max_brightness),
                 !.input_mode = IF a.pi_input_mode # "None" THEN a.pi_input_mode ELSE @,
                 !.input_pin = IF a.pi_input_pin.has THEN a.pi_input_pin.v ELSE @,
                 !.analog_path = IF a.analog_path # "None" THEN a.analog_path ELSE @,
                 !.analog_max = IF a.analog_max.has THEN Max(1, a.analog_max.v) ELSE @,
                 !.emergency_only = IF a.emergency_only THEN TRUE ELSE @]
    IN  normalize_pattern_for_mode(s2)

apply_cli_overrides_options(op, a) ==
    [op EXCEPT
       !.frames = IF a.frames.has THEN Max(0, a.frames.v) ELSE @,
       !.duration_seconds = IF a.duration_seconds.has
                            THEN Max(0, a.duration_seconds.v) ELSE @,
       !.start_delay_seconds = IF a.start_delay_seconds.has
                               THEN Max(0, a.start_delay_seconds.v) ELSE @]

has_non_interactive_cli_options(a) ==
    \/ a.pattern # "None" \/ a.speed # "None" \/ a.chase_color # "None"
    \/ a.random_palette # "None" \/ a.bounce_color # "None"
    \/ a.brightness.has \/ a.max_brightness.has
    \/ a.pi_input_mode # "None" \/ a.pi_input_pin.has
    \/ a.analog_path # "None" \/ a.analog_max.has
    \/ a.test \/ a.frames.has \/ a.duration_seconds.has
    \/ a.start_delay_seconds.has \/ a.emergency_only

----------------------------------------------------------------------------
(* Text of the software sink: a string is a sequence of characters *)

\* the 8-bit channels packed in a color
Red(color) == (color \div 65536) % 256
Green(color) == (color \div 256) % 256
Blue(color) == color % 256

\* mutant: a tie between the channels goes to the later letter
color_to_ascii_ties_last(color) ==
    IF color = 0 THEN "."
    ELSE IF Red(color) > 180 /\ Green(color) > 180 /\ Blue(color) > 180 THEN "W"
    ELSE IF Blue(color) >= Red(color) /\ Blue(color) >= Green(color) THEN "B"
    ELSE IF Green(color) >= Red(color) /\ Green(color) >= Blue(color) THEN "G"
    ELSE "R"

color_to_ascii(color) ==
    IF color = 0 THEN "."
    ELSE IF Red(color) > 180 /\ Green(color) > 180 /\ Blue(color) > 180 THEN "W"
    ELSE IF Red(color) >= Green(color) /\ Red(color) >= Blue(color) THEN "R"
    ELSE IF Green(color) >= Red(color) /\ Green(color) >= Blue(color) THEN "G"
    ELSE "B"

DecimalDigits == << "0", "1", "2", "3", "4", "5", "6", "7", "8", "9" >>

\* the number a decimal digit stands for
DigitValue(ch) == CHOOSE d \in 0..9 : DecimalDigits[d + 1] = ch

\* str(n) for n >= 0
RECURSIVE Decimal(_)
Decimal(n) ==
    IF n < 10 THEN << DecimalDigits[n + 1] >>
    ELSE Decimal(n \div 10) \o << DecimalDigits[(n % 10) + 1] >>

\* width zeros
RECURSIVE Zeros(_)
Zeros(width) == IF width <= 0 THEN << >> ELSE << "0" >> \o Zeros(width - 1)

\* f"{n:04d}" for n >= 0
Format04d(n) == Zeros(4 - Len(Decimal(n))) \o Decimal(n)

\* f"Frame {frame:04d} | "
FramePrefix(frame) ==
    << "F", "r", "a", "m", "e", " " >> \o Format04d(frame) \o << " ", "|", " " >>

\* "".join(color_to_ascii(pixel) for pixel in self.pixels)
ascii_pixels(pixels, count) == [i \in 1..count |-> color_to_ascii(pixels[i - 1])]

\* text[start:stop], Python slice with 0 <= start
Slice(text, start, stop) ==
    IF start >= Len(text) \/ stop <= start THEN << >>
    ELSE SubSeq(text, start + 1, IF stop <= Len(text) THEN stop ELSE Len(text))

\* width spaces
RECURSIVE Spaces(_)
Spaces(width) == IF width <= 0 THEN << >> ELSE << " " >> \o Spaces(width - 1)

\* line.ljust(width)
ljust(line, width) == line \o Spaces(width - Len(line))

----------------------------------------------------------------------------
(* The Pixel Sink: VirtualStrip, or the rpi_ws281x strip *)

\* the control sequences show() last wrote to stdout: the count n of the
\* cursor-up sequence ESC [ n A (0 when there was none) and the number of
\* erase-line sequences ESC [ 2 K; the text it wrote is shown_lines below
NothingWritten == [up |-> 0, clears |-> 0]

\* strip is None
NoStrip == [kind |-> "none", count |-> 0, pixels |-> << >>, brightness |-> 0, frame |-> 0, flushed |-> << >>, finished |-> 0, render_width |-> 0, rendered_lines |-> 0, has_animated |-> FALSE, written |-> NothingWritten]

\* VirtualStrip(count) / Adafruit_NeoPixel(LED_COUNT, ...): pixels are indexed
\* from 0; frame counts the calls of show(), flushed is the buffer show() last
\* put out, finished counts the calls of finish()
NewStrip(kind, count) ==
    [kind |-> kind, count |-> count,
     pixels |-> [i \in 0..(count - 1) |-> BLACK],
     brightness |-> LED_BRIGHTNESS, frame |-> 0,
     flushed |-> [i \in 0..(count - 1) |-> BLACK], finished |-> 0,
     render_width |-> IF kind = "virtual" THEN Max(20, env.columns - 2) ELSE 0,
     rendered_lines |-> 0, has_animated |-> FALSE, written |-> NothingWritten]

setPixelColor(s, n, color) ==
    IF 0 <= n /\ n < s.count THEN [s EXCEPT !.pixels[n] = color] ELSE s

setBrightness(s, brightness) == [s EXCEPT !.brightness = Max(0, Min(255, brightness))]

\* len(chunks): one line for the prefix, one for each step of
\* range(0, len(tail), render_width)
show_chunk_count(s) ==
    LET first_line_capacity == Max(10, s.render_width - Len(FramePrefix(s.frame + 1)))
        tail_length == Max(0, s.count - first_line_capacity)
    IN  1 + ((tail_length + s.render_width - 1) \div s.render_width)

\* show(): the hardware strip latches the buffer; the VirtualStrip counts the
\* frame and prints it, one plain line when stdout is no terminal, else the
\* padded chunks after moving the cursor up by _rendered_lines
show(s) ==
    IF s.kind # "virtual" THEN [s EXCEPT !.frame = @ + 1, !.flushed = s.pixels]
    ELSE IF ~env.stdout_isatty
    THEN [s EXCEPT !.frame = @ + 1, !.flushed = s.pixels, !.written = NothingWritten]
    ELSE LET chunks == show_chunk_count(s) IN
         [s EXCEPT !.frame = @ + 1, !.flushed = s.pixels,
                   !.written = [up |-> IF s.has_animated THEN s.rendered_lines ELSE 0,
                                clears |-> chunks],
                   !.has_animated = TRUE,
                   !.rendered_lines = chunks + 1]

\* the text lines show() wrote when it left the strip s, each ended by a
\* newline: printed from self.frame after the increment and from the pixels
\* it flushed. Without a terminal the one line of print(); on a terminal
\* lines 193-206: the prefix with what fits on the first line, then the tail
\* in pieces of render_width, all padded to render_width
shown_lines(s) ==
    LET prefix == FramePrefix(s.frame)
        glyphs == ascii_pixels(s.flushed, s.count)
        first_line_capacity == Max(10, s.render_width - Len(prefix))
        tail == Slice(glyphs, first_line_capacity, Len(glyphs))
        pieces == (Len(tail) + s.render_width - 1) \div s.render_width
        lines == << prefix \o Slice(glyphs, 0, first_line_capacity) >>
                   \o [k \in 1..pieces |-> Slice(tail, (k - 1) * s.render_width, k * s.render_width)]
    IN  IF ~env.stdout_isatty THEN << prefix \o glyphs >>
        ELSE [k \in 1..Len(lines) |-> ljust(lines[k], s.render_width)]

finish(s) == [s EXCEPT !.finished = @ + 1]

\* all pixels of the buffer set to one color
Fill(s, color) == [s EXCEPT !.pixels = [i \in 0..(s.count - 1) |-> color]]

\* clear_strip: for i in range(LED_COUNT): setPixelColor(i, black); show if asked
clear_strip(s, show_now) ==
    IF s.kind = "none" THEN s
    ELSE IF show_now THEN show(Fill(s, BLACK)) ELSE Fill(s, BLACK)

set_strip_brightness(s, value) == setBrightness(s, clamp_brightness(value))

----------------------------------------------------------------------------
(* Input Response *)

\* int((bounded / analog_max) * max_brightness) in IEEE-754 double arithmetic:
\* the quotient is rounded before the product, which for some operands falls
\* just below the whole number the exact product has. RoundsBelow lists the
\* operands of the model's input sets for which CPython gives one less than
\* floor(bounded * max_brightness / analog_max).
RoundsBelow == {<<7, 10, 90>>, <<7, 10, 170>>, <<7, 10, 180>>}

FloatScale(bounded, analog_max, max_brightness) ==
    ((bounded * max_brightness) \div analog_max)
      - (IF <<bounded, analog_max, max_brightness>> \in RoundsBelow THEN 1 ELSE 0)

\* a sensor read returns None (NoneInt: no sample) or an integer (SomeInt)
analog_brightness(st, analog_value) ==
    LET analog_max == Max(1, st.analog_max)
        bounded == Max(0, Min(analog_max, analog_value))
    IN  clamp_brightness(FloatScale(bounded, analog_max, st.max_brightness))

\* mutant: a true sample gives full brightness, not the ceiling
digital_brightness_full(st, digital_value) ==
    IF digital_value > 0 THEN LED_BRIGHTNESS ELSE 0

digital_brightness(st, digital_value) ==
    IF digital_value > 0 THEN st.max_brightness ELSE 0

\* mutant: a read that returned nothing is taken as a sample of 0
input_response_brightness_zero(st, sample) ==
    IF st.input_mode = "off" THEN st.brightness
    ELSE IF st.input_mode = "digital" THEN digital_brightness(st, sample.v)
    ELSE analog_brightness(st, sample.v)

\* apply_pi_input_response: the new state.brightness, or the old one
input_response_brightness(st, sample) ==
    IF st.input_mode = "off" \/ ~sample.has THEN st.brightness
    ELSE IF st.input_mode = "digital" THEN digital_brightness(st, sample.v)
    ELSE analog_brightness(st, sample.v)

\* whether apply_pi_input_response calls set_strip_brightness
input_response_applies(st, sample) == st.input_mode # "off" /\ sample.has

----------------------------------------------------------------------------
(* The Command Interpreter *)

CTRL_O == "ctrl-o"

\* mutant: the digit keys are not looked up, only 'p' changes the pattern
handle_key_pattern_cycle_only(st, k) ==
    IF k = "p" /\ k \notin Range(available_patterns(st.emergency_only))
    THEN cycle_choice(st.pattern, available_patterns(st.emergency_only))
    ELSE st.pattern

handle_key_pattern(st, k) ==
    LET allowed == available_patterns(st.emergency_only) IN
    IF k \in Range(allowed) THEN k
    ELSE IF k = "p" THEN cycle_choice(st.pattern, allowed)
    ELSE st.pattern

\* mutant: 'c' cycles the chase color whatever the active pattern is
handle_key_state_chase_only(st, k) ==
    LET allowed == available_patterns(st.emergency_only) IN
    IF k \in Range(allowed) \/ k = "p" THEN [st EXCEPT !.pattern = handle_key_pattern(st, k)]
    ELSE IF k = "s" THEN [st EXCEPT !.speed = cycle_choice(st.speed, SPEED_LABELS)]
    ELSE IF k = "c" THEN [st EXCEPT !.chase_color = cycle_choice(st.chase_color, CHASE_COLORS)]
    ELSE IF k = "+" THEN [st EXCEPT !.brightness = clamp_brightness(st.brightness + BRIGHTNESS_STEP)]
    ELSE IF k = "-" THEN [st EXCEPT !.brightness = clamp_brightness(st.brightness - BRIGHTNESS_STEP)]
    ELSE st

\* handle_key: the AppState it leaves
handle_key_state(st, k) ==
    LET allowed == available_patterns(st.emergency_only) IN
    IF k \in Range(allowed) \/ k = "p" THEN [st EXCEPT !.pattern = handle_key_pattern(st, k)]
    ELSE IF k = "s" THEN [st EXCEPT !.speed = cycle_choice(st.speed, SPEED_LABELS)]
    ELSE IF k = "c" THEN
        (IF st.pattern = "1" THEN [st EXCEPT !.chase_color = cycle_choice(st.chase_color, CHASE_COLORS)]
         ELSE IF st.pattern = "2" THEN [st EXCEPT !.random_palette = cycle_choice(st.random_palette, RANDOM_PALETTES)]
         ELSE IF st.pattern = "3" THEN [st EXCEPT !.bounce_color = cycle_choice(st.bounce_color, BOUNCE_COLORS)]
         ELSE st)
    ELSE IF k = "+" THEN [st EXCEPT !.brightness = clamp_brightness(st.brightness + BRIGHTNESS_STEP)]
    ELSE IF k = "-" THEN [st EXCEPT !.brightness = clamp_brightness(st.brightness - BRIGHTNESS_STEP)]
    ELSE st

\* mutant: '+' and '-' change the state only, the strip keeps its brightness
handle_key_strip_deferred(s, st, k) == s

\* handle_key: the strip it leaves ('+' and '-' call set_strip_brightness)
handle_key_strip(s, st, k) ==
    LET allowed == available_patterns(st.emergency_only) IN
    IF k \notin Range(allowed) /\ k \in {"+", "-"}
    THEN set_strip_brightness(s, handle_key_state(st, k).brightness)
    ELSE s

\* mutant: 'q' falls through to the final return True
handle_key_continue_always(st, k) == TRUE

\* handle_key: its return value, False only for 'q'
handle_key_continue(st, k) ==
    LET allowed == available_patterns(st.emergency_only) IN
    ~(k \notin Range(allowed) /\ k = "q")

----------------------------------------------------------------------------
(* The Pattern Engine *)

\* (state.rainbow_offset + position * 8) & 255
WheelArg(st, position) == (st.rainbow_offset + position * 8) % 256

RainbowColor(st, position) == wheel(WheelArg(st, position))

\* mutant: the position advances without wrapping at the end of the strip
pattern_step_chase_state_nowrap(st, n) ==
    [st EXCEPT
       !.rainbow_offset = IF st.chase_color = "4" THEN (@ + 3) % 256 ELSE @,
       !.chase_position = IF @ + 1 > n THEN 0 ELSE @ + 1]

\* mutant: the rainbow offset advances without the & 255
pattern_step_chase_state_nomask(st, n) ==
    [st EXCEPT
       !.rainbow_offset = IF st.chase_color = "4" THEN @ + 3 ELSE @,
       !.chase_position = (@ + 1) % n]

pattern_step_chase_state(st, n) ==
    [st EXCEPT
       !.rainbow_offset = IF st.chase_color = "4" THEN (@ + 3) % 256 ELSE @,
       !.chase_position = (@ + 1) % n]

\* mutant: the buffer is not cleared before the pixel is set
pattern_step_chase_strip_noclear(s, st) ==
    LET color == IF st.chase_color = "4" THEN RainbowColor(st, st.chase_position)
                 ELSE ChaseColorValue(st.chase_color)
    IN  show(setPixelColor(s, st.chase_position, color))

pattern_step_chase_strip(s, st) ==
    LET color == IF st.chase_color = "4" THEN RainbowColor(st, st.chase_position)
                 ELSE ChaseColorValue(st.chase_color)
    IN  show(setPixelColor(clear_strip(s, FALSE), st.chase_position, color))

bounce_next_direction(st, n) ==
    IF st.bounce_position = n - 1 THEN -1
    ELSE IF st.bounce_position = 0 THEN 1
    ELSE st.bounce_direction

\* mutant: the direction flips at an end in one step and the move follows in
\* the next, so the end pixel is displayed twice
pattern_step_bounce_state_dwell(st, n) ==
    [st EXCEPT
       !.rainbow_offset = IF st.bounce_color = "4" THEN (@ + 3) % 256 ELSE @,
       !.bounce_direction = bounce_next_direction(st, n),
       !.bounce_position = IF bounce_next_direction(st, n) = st.bounce_direction
                           THEN @ + st.bounce_direction ELSE @]

\* mutant: a Bounce step rewinds the Chase position
pattern_step_bounce_state_rewinds(st, n) ==
    [st EXCEPT
       !.rainbow_offset = IF st.bounce_color = "4" THEN (@ + 3) % 256 ELSE @,
       !.bounce_direction = bounce_next_direction(st, n),
       !.bounce_position = @ + bounce_next_direction(st, n),
       !.chase_position = 0]

pattern_step_bounce_state(st, n) ==
    [st EXCEPT
       !.rainbow_offset = IF st.bounce_color = "4" THEN (@ + 3) % 256 ELSE @,
       !.bounce_direction = bounce_next_direction(st, n),
       !.bounce_position = @ + bounce_next_direction(st, n)]

\* mutant: the buffer is cleared with show_now, a blank frame goes out first
pattern_step_bounce_strip_blank_first(s, st) ==
    LET color == IF st.bounce_color = "4" THEN RainbowColor(st, st.bounce_position)
                 ELSE BounceColorValue(st.bounce_color)
    IN  show(setPixelColor(clear_strip(s, TRUE), st.bounce_position, color))

pattern_step_bounce_strip(s, st) ==
    LET color == IF st.bounce_color = "4" THEN RainbowColor(st, st.bounce_position)
                 ELSE BounceColorValue(st.bounce_color)
    IN  show(setPixelColor(clear_strip(s, FALSE), st.bounce_position, color))

\* mutant: the waveform restarts one step late
pattern_step_emergency_state_late(st) ==
    IF st.emergency_step + 1 > Len(EMERGENCY_SOS_STEPS)
    THEN [st EXCEPT !.emergency_step = 0,
                    !.emergency_color_index = (@ + 1) % 3]
    ELSE [st EXCEPT !.emergency_step = @ + 1]

pattern_step_emergency_state(st) ==
    IF st.emergency_step + 1 >= Len(EMERGENCY_SOS_STEPS)
    THEN [st EXCEPT !.emergency_step = 0,
                    !.emergency_color_index = (@ + 1) % 3]
    ELSE [st EXCEPT !.emergency_step = @ + 1]

pattern_step_emergency_strip(s, st) ==
    LET step_on == EMERGENCY_SOS_STEPS[st.emergency_step + 1] > 0
        color == EMERGENCY_COLORS[st.emergency_color_index]
    IN  show(Fill(s, IF step_on THEN color ELSE BLACK))

\* the colors pattern_step_random may give one pixel
random_choices(st) ==
    IF RandomPaletteValue(st.random_palette) = {} THEN AnyRGBSample
    ELSE RandomPaletteValue(st.random_palette)

\* pattern_step_random with the drawn colors buf: every pixel set, then show()
pattern_step_random_strip(s, buf) == show([s EXCEPT !.pixels = buf])

----------------------------------------------------------------------------
(* Initial states: the command line, the settings record, the environment *)

\* parse_args() with no option given
NoArgs ==
    [pattern |-> "None", speed |-> "None", chase_color |-> "None",
     random_palette |-> "None", bounce_color |-> "None",
     brightness |-> NoneInt, max_brightness |-> NoneInt,
     pi_input_mode |-> "None", pi_input_pin |-> NoneInt,
     analog_path |-> "None", analog_max |-> NoneInt,
     test |-> FALSE, frames |-> NoneInt, duration_seconds |-> NoneInt,
     start_delay_seconds |-> NoneInt, headless |-> FALSE,
     emergency_only |-> FALSE]

\* load_headless_config() of a missing or unreadable file: {}
NoData ==
    [is_dict |-> TRUE,
     pattern |-> PyNone, speed |-> PyNone, chase_color |-> PyNone,
     random_palette |-> PyNone, bounce_color |-> PyNone,
     brightness |-> PyNone, max_brightness |-> PyNone,
     emergency_only |-> PyNone, test |-> PyNone,
     input_is_dict |-> FALSE, input |-> EmptyInput,
     run_is_dict |-> FALSE, run |-> EmptyRun]

\* AppState before main() has built it: the dataclass defaults
BlankState == AppState("1", "2", "1", "1", "1", LED_BRIGHTNESS, LED_BRIGHTNESS, "off", DEFAULT_INPUT_PIN, DEFAULT_ANALOG_PATH, DEFAULT_ANALOG_MAX, FALSE)

BlankHist ==
    [reason |-> "none", entry |-> BlankState, in_loop |-> FALSE,
     chase_steps |-> 0, bounce_steps |-> 0, sos_steps |-> 0, random_steps |-> 0,
     polled |-> FALSE, handled |-> FALSE, term0 |-> "unset", cbreak |-> FALSE,
     sample |-> NoneInt, delay |-> 0]

InitWith(ArgsSet, DataSet, EnvSet) ==
    /\ args \in ArgsSet
    /\ data \in DataSet
    /\ env \in EnvSet
    /\ state = BlankState
    /\ options = RunOptions(0, 0, 0)
    /\ test_mode = FALSE
    /\ strip = NoStrip
    /\ pc = "main"
    /\ frame_count = 0
    /\ key = "None"
    /\ exc = "None"
    /\ term = [mode |-> env.term_mode, old |-> "unset"]
    /\ hist = [BlankHist EXCEPT !.term0 = env.term_mode]

----------------------------------------------------------------------------
(* main(): start-up *)

\* main(): state, options = state_from_args(args)
StateFromArgs ==
    /\ pc = "main"
    /\ ~args.headless
    /\ has_non_interactive_cli_options(args)
    /\ state' = state_from_args_state(args)
    /\ options' = state_from_args_options(args)
    /\ test_mode' = args.test
    /\ pc' = "init"
    /\ UNCHANGED <<args, data, env, strip, frame_count, key, exc, term, hist>>

\* main(): --headless: the loaded record, then apply_cli_overrides
HeadlessStart ==
    /\ pc = "main"
    /\ args.headless
    /\ IF headless_raises(data) # "None"
       THEN /\ exc' = headless_raises(data)
            /\ pc' = "finally"
            /\ UNCHANGED <<state, options, test_mode>>
       ELSE /\ state' = apply_cli_overrides_state(headless_state(data), args)
            /\ options' = apply_cli_overrides_options(headless_options(data), args)
            /\ test_mode' = (args.test \/ headless_test_mode(data))
            /\ pc' = "init"
            /\ exc' = exc
    /\ UNCHANGED <<args, data, env, strip, frame_count, key, term, hist>>

\* main(): interactive_setup() answered with the headless config mode: the
\* loaded record as it is
InteractiveSetup ==
    /\ pc = "main"
    /\ ~args.headless
    /\ ~has_non_interactive_cli_options(args)
    /\ IF headless_raises(data) # "None"
       THEN /\ exc' = headless_raises(data)
            /\ pc' = "finally"
            /\ UNCHANGED <<state, options, test_mode>>
       ELSE /\ state' = headless_state(data)
            /\ options' = headless_options(data)
            /\ test_mode' = (args.test \/ headless_test_mode(data))
            /\ pc' = "init"
            /\ exc' = exc
    /\ UNCHANGED <<args, data, env, strip, frame_count, key, term, hist>>

\* apply_brightness_from_state
apply_brightness_from_state_state(st) ==
    [st EXCEPT !.brightness = clamp_brightness(st.brightness),
               !.max_brightness = clamp_brightness(st.max_brightness)]

\* main(): init_virtual_strip() or init_strip(), begin(), clear_strip,
\* apply_brightness_from_state; init_strip raises RuntimeError without the driver
InitStrip ==
    /\ pc = "init"
    /\ IF ~test_mode /\ ~env.have_rpi_ws281x
       THEN /\ exc' = "RuntimeError"
            /\ pc' = "finally"
            /\ hist' = [hist EXCEPT !.reason = "error"]
            /\ UNCHANGED <<strip, state>>
       ELSE /\ state' = apply_brightness_from_state_state(state)
            /\ strip' = set_strip_brightness(
                          clear_strip(NewStrip(IF test_mode THEN "virtual" ELSE "hw", env.led_count), ~test_mode),
                          clamp_brightness(state.brightness))
            /\ pc' = "run_loop"
            /\ UNCHANGED <<exc, hist>>
    /\ UNCHANGED <<args, data, env, options, test_mode, frame_count, key, term>>

----------------------------------------------------------------------------
(* run_loop *)

\* mutant: the keystroke poll is not skipped without a terminal
loop_top_always_poll(stdin_isatty) == "poll"

\* where the loop body begins: the headless branch has no keystroke poll
loop_top(stdin_isatty) == IF stdin_isatty THEN "poll" ELSE "respond"

\* where control goes when the loop is left: the interactive branch runs its
\* finally clause, the headless branch returns to the module-level finally
loop_exit(stdin_isatty) == IF stdin_isatty THEN "restore" ELSE "finally"

\* the two limit checks after frame_count += 1: which limit breaks the loop
\* mutant: the frame limit compared with > instead of >=
loop_stop_late(opts, count, elapsed) ==
    IF opts.frames > 0 /\ count > opts.frames THEN "frames"
    ELSE IF opts.duration_seconds > 0 /\ elapsed THEN "duration"
    ELSE "none"

loop_stop(opts, count, elapsed) ==
    IF opts.frames > 0 /\ count >= opts.frames THEN "frames"
    ELSE IF opts.duration_seconds > 0 /\ elapsed THEN "duration"
    ELSE "none"

\* run_loop up to the loop: status line, start delay, frame_count = 0, and in
\* the interactive branch old_settings = tcgetattr(fd); tty.setcbreak(fd)
RunLoopEnter ==
    /\ pc = "run_loop"
    /\ frame_count' = 0
    /\ pc' = loop_top(env.stdin_isatty)
    /\ term' = IF env.stdin_isatty THEN [mode |-> "cbreak", old |-> term.mode] ELSE term
    /\ hist' = [hist EXCEPT !.entry = state, !.in_loop = TRUE, !.cbreak = env.stdin_isatty]
    /\ UNCHANGED <<args, data, env, state, options, test_mode, strip, key, exc>>

\* key = maybe_read_key(); if key is not None and not handle_key(...): break
PollKey(Keys) ==
    /\ pc = "poll"
    /\ \E k \in Keys \cup {"None"} :
         /\ key' = k
         /\ IF k = "None"
            THEN /\ pc' = "respond"
                 /\ hist' = [hist EXCEPT !.polled = TRUE, !.delay = 0]
                 /\ UNCHANGED <<state, strip>>
            ELSE /\ state' = handle_key_state(state, k)
                 /\ strip' = handle_key_strip(strip, state, k)
                 /\ pc' = IF handle_key_continue(state, k) THEN "respond" ELSE loop_exit(env.stdin_isatty)
                 /\ hist' = [hist EXCEPT !.polled = TRUE, !.handled = TRUE, !.delay = 0,
                                         !.reason = IF handle_key_continue(state, k) THEN @ ELSE "quit"]
    /\ UNCHANGED <<args, data, env, options, test_mode, frame_count, exc, term>>

\* what read_digital_input / read_analog_input may return in this model
DigitalSamples == {NoneInt, SomeInt(0), SomeInt(1)}
AnalogSamples == {NoneInt, SomeInt(-1), SomeInt(0), SomeInt(7), SomeInt(10), SomeInt(11)}

sensor_samples(st) ==
    IF st.input_mode = "digital" THEN DigitalSamples
    ELSE IF st.input_mode = "analog" THEN AnalogSamples
    ELSE {NoneInt}

\* apply_pi_input_response(state); hist.sample keeps what the sensor read
\* returned until the pattern step of the iteration is done
Respond ==
    /\ pc = "respond"
    /\ \E sample \in sensor_samples(state) :
         /\ state' = [state EXCEPT !.brightness = input_response_brightness(state, sample)]
         /\ strip' = IF input_response_applies(state, sample)
                     THEN set_strip_brightness(strip, input_response_brightness(state, sample))
                     ELSE strip
         /\ hist' = [hist EXCEPT !.sample = sample, !.delay = 0]
    /\ pc' = "step"
    /\ UNCHANGED <<args, data, env, options, test_mode, frame_count, key, exc, term>>

\* frame_count += 1 and the limit checks, after the pattern step left hist at
\* h; when no limit stops the loop, time.sleep(get_delay(state)): hist.delay
\* keeps the delay slept, in milliseconds, until the next iteration begins
StepTail(h) ==
    /\ frame_count' = frame_count + 1
    /\ \E elapsed \in BOOLEAN :
         LET stop == loop_stop(options, frame_count + 1, elapsed) IN
         /\ pc' = IF stop = "none" THEN loop_top(env.stdin_isatty) ELSE loop_exit(env.stdin_isatty)
         /\ hist' = [h EXCEPT !.reason = stop, !.sample = NoneInt,
                              !.delay = IF stop = "none" THEN get_delay(state) ELSE 0]
    /\ UNCHANGED <<args, data, env, options, test_mode, key, exc, term>>

StepChase(cap) ==
    /\ pc = "step"
    /\ frame_count < cap
    /\ state.pattern = "1"
    /\ state' = pattern_step_chase_state(state, env.led_count)
    /\ strip' = pattern_step_chase_strip(strip, state)
    /\ StepTail([hist EXCEPT !.chase_steps = @ + 1])

StepRandom(cap) ==
    /\ pc = "step"
    /\ frame_count < cap
    /\ state.pattern = "2"
    /\ \E buf \in [0..(env.led_count - 1) -> random_choices(state)] :
         strip' = pattern_step_random_strip(strip, buf)
    /\ state' = state
    /\ StepTail([hist EXCEPT !.random_steps = @ + 1])

StepBounce(cap) ==
    /\ pc = "step"
    /\ frame_count < cap
    /\ state.pattern = "3"
    /\ state' = pattern_step_bounce_state(state, env.led_count)
    /\ strip' = pattern_step_bounce_strip(strip, state)
    /\ StepTail([hist EXCEPT !.bounce_steps = @ + 1])

\* the else branch of the dispatch: every pattern value other than "1", "2", "3"
StepEmergency(cap) ==
    /\ pc = "step"
    /\ frame_count < cap
    /\ state.pattern \notin {"1", "2", "3"}
    /\ state' = pattern_step_emergency_state(state)
    /\ strip' = pattern_step_emergency_strip(strip, state)
    /\ StepTail([hist EXCEPT !.sos_steps = @ + 1])

\* KeyboardInterrupt raised while run_loop runs
Interrupt ==
    /\ pc \in {"run_loop", "poll", "respond", "step"}
    /\ exc' = "KeyboardInterrupt"
    /\ pc' = IF pc = "run_loop" THEN "finally" ELSE loop_exit(env.stdin_isatty)
    /\ hist' = [hist EXCEPT !.reason = "interrupt", !.sample = NoneInt, !.delay = 0]
    /\ UNCHANGED <<args, data, env, state, options, test_mode, strip, frame_count, key, term>>

\* mutant: the terminal is reset to a fixed mode, not to the saved settings
restored_mode_fixed(t) == "cooked"

\* run_loop: finally: termios.tcsetattr(fd, TCSADRAIN, old_settings)
restored_mode(t) == t.old

RestoreTerminal ==
    /\ pc = "restore"
    /\ term' = [term EXCEPT !.mode = restored_mode(term)]
    /\ pc' = "finally"
    /\ UNCHANGED <<args, data, env, state, options, test_mode, strip, frame_count, key, exc, hist>>

\* module level: except KeyboardInterrupt: pass; finally: clear_strip(show_now
\* = not virtual), and finish() on the virtual strip
\* mutant: the blank frame is shown on the virtual strip too
shutdown_strip_shown(s) ==
    IF s.kind = "virtual" THEN finish(clear_strip(s, TRUE))
    ELSE clear_strip(s, TRUE)

shutdown_strip(s) ==
    IF s.kind = "virtual" THEN finish(clear_strip(s, FALSE))
    ELSE clear_strip(s, TRUE)

Shutdown ==
    /\ pc = "finally"
    /\ strip' = shutdown_strip(strip)
    /\ exc' = IF exc = "KeyboardInterrupt" THEN "None" ELSE exc
    /\ pc' = "done"
    /\ UNCHANGED <<args, data, env, state, options, test_mode, frame_count, key, term, hist>>

----------------------------------------------------------------------------
(* The relaunch command: build_nohup_command, the shell, parse_args *)

\* A command line is a sequence of words and a word a sequence of pieces of
\* text: one piece for a flag or a name, one piece per digit for a number,
\* and a piece " " wherever the text holds a space.

\* an analog path with a space in it
SpacedPath == "/tmp/adc raw"

\* the pieces of a string of the model
Pieces(s) == IF s = SpacedPath THEN << "/tmp/adc", " ", "raw" >> ELSE << s >>

\* str(n)
Str(n) == IF n < 0 THEN << "-" >> \o Decimal(0 - n) ELSE Decimal(n)

\* int(text) for the text of a whole number
RECURSIVE DigitsValue(_)
DigitsValue(text) ==
    IF text = << >> THEN 0
    ELSE 10 * DigitsValue(SubSeq(text, 1, Len(text) - 1)) + DigitValue(text[Len(text)])

IsDigits(text) == text # << >> /\ \A i \in 1..Len(text) : text[i] \in Range(DecimalDigits)

IsInt(text) ==
    text # << >> /\ (IF text[1] = "-" THEN IsDigits(Tail(text)) ELSE IsDigits(text))

ParseInt(text) == IF text[1] = "-" THEN 0 - DigitsValue(Tail(text)) ELSE DigitsValue(text)

\* build_nohup_command: the list command before " ".join
nohup_words(st, op) ==
    << << "nohup" >>, << "python3" >>, << "into.py" >>,
       << "--pattern" >>, Pieces(st.pattern),
       << "--speed" >>, Pieces(st.speed),
       << "--chase-color" >>, Pieces(st.chase_color),
       << "--random-palette" >>, Pieces(st.random_palette),
       << "--bounce-color" >>, Pieces(st.bounce_color),
       << "--brightness" >>, Str(st.brightness),
       << "--max-brightness" >>, Str(st.max_brightness),
       << "--pi-input-mode" >>, Pieces(st.input_mode),
       << "--pi-input-pin" >>, Str(st.input_pin),
       << "--analog-path" >>, Pieces(st.analog_path),
       << "--analog-max" >>, Str(st.analog_max) >>
    \o (IF op.frames > 0 THEN << << "--frames" >>, Str(op.frames) >> ELSE << >>)
    \o (IF op.duration_seconds > 0 THEN << << "--duration-seconds" >>, Str(op.duration_seconds) >> ELSE << >>)
    \o (IF op.start_delay_seconds > 0 THEN << << "--start-delay-seconds" >>, Str(op.start_delay_seconds) >> ELSE << >>)
    \o (IF st.emergency_only THEN << << "--emergency-only" >> >> ELSE << >>)
    \o << << ">" >>, << "runtime_live.log" >>, << "2>&1" >>, << "&" >>,
          << "echo" >>, << "$!" >>, << ">" >>, << "runtime_live.pid" >> >>

\* " ".join(words)
RECURSIVE JoinWords(_)
JoinWords(words) ==
    IF words = << >> THEN << >>
    ELSE IF Len(words) = 1 THEN words[1]
    ELSE words[1] \o << " " >> \o JoinWords(Tail(words))

\* build_nohup_command: the text it returns
build_nohup_command(st, op) == JoinWords(nohup_words(st, op))

\* the shell splits the command text into words at the spaces
RECURSIVE SplitWords(_, _)
SplitWords(text, word) ==
    LET done == IF word = << >> THEN << >> ELSE << word >> IN
    IF text = << >> THEN done
    ELSE IF Head(text) = " " THEN done \o SplitWords(Tail(text), << >>)
    ELSE SplitWords(Tail(text), Append(word, Head(text)))

ShellWords(text) == SplitWords(text, << >>)

\* sys.argv[1:] of the relaunched into.py: the words after "nohup", the
\* interpreter and "into.py", up to the first redirection
RelaunchArgv(text) ==
    LET words == ShellWords(text)
        stop == CHOOSE i \in 1..Len(words) :
                   words[i] = << ">" >> /\ \A j \in 1..(i - 1) : words[j] # << ">" >>
    IN  SubSeq(words, 4, stop - 1)

ChoiceFlags ==
    [f \in {"--pattern", "--speed", "--chase-color", "--random-palette", "--bounce-color", "--pi-input-mode"} |->
       CASE f = "--pattern" -> {"1", "2", "3", "4"}
         [] f = "--speed" -> {"1", "2", "3"}
         [] f = "--chase-color" -> {"1", "2", "3", "4"}
         [] f = "--random-palette" -> {"1", "2", "3"}
         [] f = "--bounce-color" -> {"1", "2", "3", "4"}
         [] f = "--pi-input-mode" -> INPUT_MODES]

\* parse_args: a switch sets its attribute
set_switch(a, flag) ==
    CASE flag = "--test" -> [a EXCEPT !.test = TRUE]
      [] flag = "--headless" -> [a EXCEPT !.headless = TRUE]
      [] flag = "--emergency-only" -> [a EXCEPT !.emergency_only = TRUE]

\* parse_args: whether the word value is accepted as the argument of flag
\* (choices, type=int, type=float kept in whole numbers)
value_accepted(flag, value) ==
    IF flag \in DOMAIN ChoiceFlags THEN Len(value) = 1 /\ value[1] \in ChoiceFlags[flag]
    ELSE IF flag \in {"--brightness", "--max-brightness", "--pi-input-pin", "--analog-max", "--frames", "--duration-seconds", "--start-delay-seconds"} THEN IsInt(value)
    ELSE flag = "--analog-path" /\ Len(value) = 1

\* parse_args: the attribute of flag set from the word value
set_value(a, flag, value) ==
    CASE flag = "--pattern" -> [a EXCEPT !.pattern = value[1]]
      [] flag = "--speed" -> [a EXCEPT !.speed = value[1]]
      [] flag = "--chase-color" -> [a EXCEPT !.chase_color = value[1]]
      [] flag = "--random-palette" -> [a EXCEPT !.random_palette = value[1]]
      [] flag = "--bounce-color" -> [a EXCEPT !.bounce_color = value[1]]
      [] flag = "--pi-input-mode" -> [a EXCEPT !.pi_input_mode = value[1]]
      [] flag = "--analog-path" -> [a EXCEPT !.analog_path = value[1]]
      [] flag = "--brightness" -> [a EXCEPT !.brightness = SomeInt(ParseInt(value))]
      [] flag = "--max-brightness" -> [a EXCEPT !.max_brightness = SomeInt(ParseInt(value))]
      [] flag = "--pi-input-pin" -> [a EXCEPT !.pi_input_pin = SomeInt(ParseInt(value))]
      [] flag = "--analog-max" -> [a EXCEPT !.analog_max = SomeInt(ParseInt(value))]
      [] flag = "--frames" -> [a EXCEPT !.frames = SomeInt(ParseInt(value))]
      [] flag = "--duration-seconds" -> [a EXCEPT !.duration_seconds = SomeInt(ParseInt(value))]
      [] flag = "--start-delay-seconds" -> [a EXCEPT !.start_delay_seconds = SomeInt(ParseInt(value))]

\* parse_args on the words argv, from the namespace a: ok is FALSE when
\* argparse ends the process with a usage error (an unrecognized word, a
\* missing or a rejected value)
RECURSIVE parse_argv(_, _)
parse_argv(argv, a) ==
    IF argv = << >> THEN [ok |-> TRUE, args |-> a]
    ELSE IF Len(argv[1]) # 1 THEN [ok |-> FALSE, args |-> a]
    ELSE IF argv[1][1] \in {"--test", "--headless", "--emergency-only"} THEN parse_argv(Tail(argv), set_switch(a, argv[1][1]))
    ELSE IF Len(argv) >= 2 /\ value_accepted(argv[1][1], argv[2])
    THEN parse_argv(SubSeq(argv, 3, Len(argv)), set_value(a, argv[1][1], argv[2]))
    ELSE [ok |-> FALSE, args |-> a]

----------------------------------------------------------------------------
(* Specifications *)

AllKeys == {"1", "2", "3", "4", "p", "s", "c", "+", "-", "h", CTRL_O, "q", "x"}

Envs ==
    {[led_count |-> n, stdin_isatty |-> e[1], have_rpi_ws281x |-> e[2], term_mode |-> e[3], stdout_isatty |-> e[1], columns |-> 24] :
        n \in 1..MaxLedCount,
        e \in {<<TRUE, TRUE, "cooked">>, <<TRUE, FALSE, "noecho">>, <<FALSE, TRUE, "cooked">>}}

\* start-up cases: a command line with the settings record it meets
ArgsTest == [NoArgs EXCEPT !.test = TRUE, !.frames = SomeInt(MaxFrames), !.analog_path = SpacedPath]
ArgsBounce == [NoArgs EXCEPT !.pattern = "3", !.bounce_color = "4", !.frames = SomeInt(1)]
ArgsCeiling == [NoArgs EXCEPT !.pattern = "4", !.test = TRUE, !.max_brightness = SomeInt(100), !.brightness = SomeInt(300), !.duration_seconds = SomeInt(5)]
ArgsEmergency == [NoArgs EXCEPT !.emergency_only = TRUE, !.pattern = "2", !.test = TRUE, !.pi_input_mode = "digital", !.max_brightness = SomeInt(90)]
ArgsHeadless == [NoArgs EXCEPT !.headless = TRUE, !.test = TRUE]
ArgsHeadlessAnalog == [NoArgs EXCEPT !.headless = TRUE, !.pattern = "4", !.max_brightness = SomeInt(90), !.pi_input_mode = "analog", !.analog_max = SomeInt(10)]
ArgsHeadlessEmergency == [NoArgs EXCEPT !.headless = TRUE, !.emergency_only = TRUE, !.brightness = SomeInt(-5)]

DataSOS == [NoData EXCEPT !.pattern = PyStr("4"), !.brightness = PyInt(200), !.max_brightness = PyNumStr("100", 100), !.test = PyBool(TRUE), !.run_is_dict = TRUE, !.run = [EmptyRun EXCEPT !.frames = PyInt(2)]]
DataBad == [NoData EXCEPT !.pattern = PyInt(2), !.speed = PyStr("9"), !.emergency_only = PyStr("yes"), !.brightness = PyInt(300), !.input_is_dict = TRUE, !.input = [EmptyInput EXCEPT !.mode = PyStr("digital")]]

\* among them a record with an infinite number, and a settings file that
\* holds a JSON list instead of an object
StartCases ==
    { <<NoArgs, DataSOS>>, <<NoArgs, DataBad>>,
      <<NoArgs, [NoData EXCEPT !.pattern = PyStr("2"), !.brightness = PyInf]>>,
      <<ArgsHeadless, [NoData EXCEPT !.is_dict = FALSE]>>,
      <<ArgsTest, NoData>>, <<ArgsBounce, NoData>>, <<ArgsCeiling, NoData>>,
      <<ArgsEmergency, NoData>>,
      <<ArgsHeadless, NoData>>, <<ArgsHeadlessAnalog, DataSOS>>,
      <<ArgsHeadlessEmergency, DataBad>> }

Init == \E c \in StartCases : InitWith({c[1]}, {c[2]}, Envs)

Next ==
    \/ StateFromArgs
    \/ HeadlessStart
    \/ InteractiveSetup
    \/ InitStrip
    \/ RunLoopEnter
    \/ PollKey(AllKeys)
    \/ Respond
    \/ StepChase(MaxFrames)
    \/ StepRandom(MaxFrames)
    \/ StepBounce(MaxFrames)
    \/ StepEmergency(MaxFrames)
    \/ Interrupt
    \/ RestoreTerminal
    \/ Shutdown

Spec == Init /\ [][Next]_vars

\* The pattern engine under pattern switches: more frames, a longer strip,
\* the keys that select and recolor patterns, no sensor
EngineKeys == {"1", "2", "3", "p", "c"}

EngineEnvs ==
    {[led_count |-> n, stdin_isatty |-> TRUE, have_rpi_ws281x |-> FALSE, term_mode |-> "cooked", stdout_isatty |-> TRUE, columns |-> 24] :
        n \in 1..MaxEngineLeds}

InitEngine ==
    InitWith({[NoArgs EXCEPT !.test = TRUE, !.chase_color = "4"],
              [NoArgs EXCEPT !.test = TRUE, !.pattern = "3", !.frames = SomeInt(MaxEngineFrames)]},
             {NoData}, EngineEnvs)

NextEngine ==
    \/ StateFromArgs
    \/ InitStrip
    \/ RunLoopEnter
    \/ PollKey(EngineKeys)
    \/ Respond
    \/ StepChase(MaxEngineFrames)
    \/ StepRandom(MaxEngineFrames)
    \/ StepBounce(MaxEngineFrames)
    \/ RestoreTerminal
    \/ Shutdown

SpecEngine == InitEngine /\ [][NextEngine]_vars

\* Emergency-only mode, long enough for three passes of the SOS waveform
SOSKeys == {"1", "p", "c"}

SOSEnvs ==
    {[led_count |-> n, stdin_isatty |-> t, have_rpi_ws281x |-> FALSE, term_mode |-> "cooked", stdout_isatty |-> t, columns |-> 24] :
        n \in {1, MaxLedCount}, t \in BOOLEAN}

ArgsSOS == [NoArgs EXCEPT !.test = TRUE, !.emergency_only = TRUE]
ArgsSOSLimit == [NoArgs EXCEPT !.test = TRUE, !.emergency_only = TRUE, !.frames = SomeInt(MaxSOSFrames - 2)]

InitSOS == InitWith({ArgsSOS, ArgsSOSLimit}, {NoData}, SOSEnvs)

NextSOS ==
    \/ StateFromArgs
    \/ InitStrip
    \/ RunLoopEnter
    \/ PollKey(SOSKeys)
    \/ Respond
    \/ StepEmergency(MaxSOSFrames)
    \/ RestoreTerminal
    \/ Shutdown

SpecSOS == InitSOS /\ [][NextSOS]_vars

\* Scenes of the pattern engine: runs with a frame limit on a terminal, where
\* keys switch the pattern, and long runs without a terminal
SceneKeys == {"1", "2", "3"}

SceneEnvs ==
    {[led_count |-> n, stdin_isatty |-> TRUE, have_rpi_ws281x |-> FALSE, term_mode |-> "cooked", stdout_isatty |-> TRUE, columns |-> 24] :
        n \in {MaxEngineLeds, MaxSceneLeds}}

RainbowEnvs ==
    {[led_count |-> MaxLedCount, stdin_isatty |-> FALSE, have_rpi_ws281x |-> FALSE, term_mode |-> "cooked", stdout_isatty |-> FALSE, columns |-> 24]}

InitScene ==
    \/ InitWith({[NoArgs EXCEPT !.test = TRUE, !.frames = SomeInt(MaxSceneFrames)],
                 [NoArgs EXCEPT !.test = TRUE, !.pattern = "3", !.chase_color = "3", !.bounce_color = "4", !.frames = SomeInt(MaxSceneFrames)]},
                {NoData}, SceneEnvs)
    \/ InitWith({[NoArgs EXCEPT !.test = TRUE, !.chase_color = "4"],
                 [NoArgs EXCEPT !.test = TRUE, !.pattern = "3", !.bounce_color = "4"],
                 [NoArgs EXCEPT !.test = TRUE, !.chase_color = "2"],
                 [NoArgs EXCEPT !.test = TRUE, !.pattern = "2", !.random_palette = "3"],
                 ArgsSOS},
                {NoData}, RainbowEnvs)

NextScene ==
    \/ StateFromArgs
    \/ InitStrip
    \/ RunLoopEnter
    \/ PollKey(SceneKeys)
    \/ Respond
    \/ StepChase(MaxRainbowFrames)
    \/ StepRandom(MaxRainbowFrames)
    \/ StepBounce(MaxRainbowFrames)
    \/ StepEmergency(MaxRainbowFrames)
    \/ RestoreTerminal
    \/ Shutdown

SpecScene == InitScene /\ [][NextScene]_vars

\* the render runs: the software sink on and off a terminal, narrow and
\* wide, stdin not a terminal so that nothing but frames is printed in the loop
RenderEnvs ==
    {[led_count |-> n, stdin_isatty |-> FALSE, have_rpi_ws281x |-> FALSE, term_mode |-> "cooked", stdout_isatty |-> t, columns |-> w] :
        n \in {4, MaxRenderLeds}, t \in BOOLEAN, w \in {24, 120}}

\* Chase in orange, green and rainbow, Bounce in white, SOS, and one Random
\* frame of any color on every strip; one Random frame of the warm and of the
\* cool palette on the strips of 4 pixels
InitRender ==
    \/ InitWith({[NoArgs EXCEPT !.test = TRUE, !.frames = SomeInt(MaxRenderFrames)],
                 [NoArgs EXCEPT !.test = TRUE, !.chase_color = "2", !.frames = SomeInt(MaxRenderFrames)],
                 [NoArgs EXCEPT !.test = TRUE, !.chase_color = "4", !.frames = SomeInt(MaxRenderFrames)],
                 [NoArgs EXCEPT !.test = TRUE, !.pattern = "3", !.bounce_color = "3", !.frames = SomeInt(MaxRenderFrames)],
                 [NoArgs EXCEPT !.test = TRUE, !.emergency_only = TRUE, !.frames = SomeInt(MaxRenderFrames)],
                 [NoArgs EXCEPT !.test = TRUE, !.pattern = "2", !.frames = SomeInt(1)]},
                {NoData}, RenderEnvs)
    \/ InitWith({[NoArgs EXCEPT !.test = TRUE, !.pattern = "2", !.random_palette = "2", !.frames = SomeInt(1)],
                 [NoArgs EXCEPT !.test = TRUE, !.pattern = "2", !.random_palette = "3", !.frames = SomeInt(1)]},
                {NoData}, {e \in RenderEnvs : e.led_count = 4})

NextRender ==
    \/ StateFromArgs
    \/ InitStrip
    \/ RunLoopEnter
    \/ Respond
    \/ StepChase(MaxRenderFrames)
    \/ StepRandom(MaxRenderFrames)
    \/ StepBounce(MaxRenderFrames)
    \/ StepEmergency(MaxRenderFrames)
    \/ Shutdown

SpecRender == InitRender /\ [][NextRender]_vars

----------------------------------------------------------------------------
(* Properties *)

Built == pc # "main"

\* C1: after construction and after every keystroke and sensor response,
\* 0 <= brightness <= max_brightness <= 255.
C1_BrightnessWithinCeiling ==
    Built => /\ 0 <= state.brightness
             /\ state.brightness <= state.max_brightness
             /\ state.max_brightness <= 255

C3_BounceInRange ==
    Built => /\ 0 <= state.bounce_position
             /\ state.bounce_position < env.led_count

C3_BounceFlipsAtEnds ==
    [][state.bounce_direction' # state.bounce_direction
         => state.bounce_position \in {0, env.led_count - 1}]_vars

\* C3 as a whole: the range always, and flips only at the two ends
C3_Bounce == []C3_BounceInRange /\ C3_BounceFlipsAtEnds

\* C4: chase_position stays within [0, N) and is the number of Chase steps
\* taken modulo N, whatever keystrokes and other pattern steps come between:
\* it returns to its start after exactly N Chase steps and not earlier.
C4_ChaseCycles ==
    Built => /\ state.chase_position \in 0..(env.led_count - 1)
             /\ state.chase_position = hist.chase_steps % env.led_count

\* C4 witness: a strip of three pixels, three Chase steps with another
\* pattern's step between them, position back at 0
C4_Witness ==
    /\ env.led_count = 3
    /\ hist.chase_steps = 3
    /\ hist.bounce_steps + hist.random_steps > 0
    /\ state.chase_position = 0
    /\ state.pattern = "1"

\* C5: the SOS waveform has 28 entries; emergency_step stays within [0, 28)
\* and emergency_color_index within [0, 3); after k Emergency steps the step
\* index is k mod 28 and the color index is (k div 28) mod 3, so 28 steps
\* advance the color once and 84 steps bring it back.
C5_SOSCycles ==
    /\ Len(EMERGENCY_SOS_STEPS) = 28
    /\ state.emergency_step \in 0..27
    /\ state.emergency_color_index \in 0..2
    /\ state.emergency_step = hist.sos_steps % 28
    /\ state.emergency_color_index = (hist.sos_steps \div 28) % 3

\* C5 witness: 84 Emergency steps taken, step and color index back at 0
C5_Witness ==
    /\ hist.sos_steps = 84
    /\ state.emergency_step = 0
    /\ state.emergency_color_index = 0

\* the keys of the runs checked for termination: quit, a pattern switch, a
\* brightness change, a key without effect
FairKeys == {"q", "2", "+", "h"}

\* the program's own steps: everything but the interrupt from outside
ProgramNext ==
    \/ StateFromArgs
    \/ HeadlessStart
    \/ InteractiveSetup
    \/ InitStrip
    \/ RunLoopEnter
    \/ PollKey(FairKeys)
    \/ Respond
    \/ StepChase(MaxFrames)
    \/ StepRandom(MaxFrames)
    \/ StepBounce(MaxFrames)
    \/ StepEmergency(MaxFrames)
    \/ RestoreTerminal
    \/ Shutdown

\* the process keeps running: a step the program can take is taken
FairNext == ProgramNext \/ Interrupt

FairSpec == Init /\ [][FairNext]_vars /\ WF_vars(ProgramNext)

\* pattern steps executed by the run loop
Steps == hist.chase_steps + hist.random_steps + hist.bounce_steps + hist.sos_steps

\* the run loop was entered and has been left
LoopLeft == hist.in_loop /\ pc \in {"restore", "finally", "done"}

\* C6: with a frame limit F > 0 the loop, in either branch, never executes
\* more than F pattern steps, executes exactly F unless the quit key, the
\* duration limit or an interrupt ends it earlier, and eventually stops; with
\* neither limit configured it is left only by the quit key or an interrupt.
C6_AtMostF ==
    hist.in_loop /\ options.frames > 0
        => Steps <= options.frames /\ frame_count = Steps

C6_ExactlyF ==
    LoopLeft /\ options.frames > 0 /\ hist.reason \notin {"quit", "duration", "interrupt"}
        => hist.reason = "frames" /\ Steps = options.frames

C6_NoLimit ==
    LoopLeft /\ options.frames = 0 /\ options.duration_seconds = 0
        => hist.reason \in {"quit", "interrupt"}

\* C6 as a whole: the three safety parts always, and a loop with a frame
\* limit eventually ends
C6_FrameLimit ==
    /\ [](C6_AtMostF /\ C6_ExactlyF /\ C6_NoLimit)
    /\ ((hist.in_loop /\ options.frames > 0) ~> (pc = "done"))

\* C6 witness: an interactive run with keystrokes, stopped by its frame limit
\* after exactly F steps
C6_Witness ==
    /\ pc = "done"
    /\ env.stdin_isatty
    /\ hist.handled
    /\ hist.reason = "frames"
    /\ options.frames = MaxFrames
    /\ Steps = options.frames

\* C7: a polled 'q' ends the interactive loop in that iteration with no input
\* response and no pattern step, and no frame is produced once 'q' was read;
\* every other key lets the iteration go on to Input Response.
C7_QuitStops ==
    [][/\ (pc = "poll" /\ pc' # "poll" /\ exc' = "None")
            => IF key' = "q"
               THEN pc' = "restore" /\ state' = state /\ strip' = strip
               ELSE pc' = "respond"
       /\ key = "q"
            => /\ pc \in {"restore", "finally", "done"}
               /\ state' = state
               /\ frame_count' = frame_count
               /\ Steps' = Steps]_vars

\* C7 witness: 'q' read after a frame had been produced, loop left
C7_Witness ==
    /\ key = "q"
    /\ pc = "restore"
    /\ frame_count = 1
    /\ hist.reason = "quit"

AllBlack(buf, n) == \A i \in 0..(n - 1) : buf[i] = BLACK

\* C8: when the run has ended with a sink initialised, every pixel of the
\* buffer is black; the hardware sink has flushed the blank buffer; the
\* software sink has flushed no blank frame (its frame counter is the number
\* of pattern steps) and finish() was invoked exactly once, and not before.
C8_ShutdownBlanks ==
    /\ (pc = "done" /\ strip.kind # "none")
          => /\ AllBlack(strip.pixels, strip.count)
             /\ strip.count = env.led_count
             /\ strip.kind = "hw"
                  => /\ AllBlack(strip.flushed, strip.count)
                     /\ strip.frame = Steps + 2
                     /\ strip.finished = 0
             /\ strip.kind = "virtual"
                  => /\ strip.frame = Steps
                     /\ strip.finished = 1
    /\ pc # "done" => strip.finished = 0

\* C8 witness: a software-sink run ended by an interrupt while its last frame
\* had lit pixels
C8_Witness ==
    /\ pc = "done"
    /\ strip.kind = "virtual"
    /\ hist.reason = "interrupt"
    /\ ~AllBlack(strip.flushed, strip.count)

\* C9: once the interactive loop has set cbreak mode, the terminal is back at
\* the settings saved before entry whenever control is past the loop's
\* finally clause, whichever way the loop was left; cbreak mode is in force
\* only inside the loop.
C9_TerminalRestored ==
    /\ (hist.cbreak /\ pc \in {"finally", "done"})
          => term.mode = term.old /\ term.old = hist.term0
    /\ term.mode = "cbreak" => pc \in {"poll", "respond", "step", "restore"}
    /\ pc \in {"poll", "respond", "step"} /\ env.stdin_isatty => term.mode = "cbreak"

\* C9 witness: cbreak entered from a terminal in another mode, the loop left by
\* an exception, the process at its end
C9_Witness ==
    /\ hist.cbreak
    /\ hist.term0 = "noecho"
    /\ hist.reason = "interrupt"
    /\ frame_count > 0
    /\ pc = "done"

\* C10: without an interactive terminal the loop never polls a key, never
\* calls handle_key, never touches the terminal settings, keeps pattern,
\* speed, the color selections and emergency_only at their start-up values,
\* and is left only by a limit or an interrupt.
C10_HeadlessNoKeys ==
    ~env.stdin_isatty
        => /\ ~hist.polled /\ ~hist.handled /\ key = "None"
           /\ pc # "poll" /\ pc # "restore"
           /\ term = [mode |-> hist.term0, old |-> "unset"]
           /\ hist.in_loop
                => /\ state.pattern = hist.entry.pattern
                   /\ state.speed = hist.entry.speed
                   /\ state.chase_color = hist.entry.chase_color
                   /\ state.random_palette = hist.entry.random_palette
                   /\ state.bounce_color = hist.entry.bounce_color
                   /\ state.emergency_only = hist.entry.emergency_only
           /\ hist.reason \in {"none", "frames", "duration", "interrupt"}

\* C10 witness: a run without a terminal that produced frames and was stopped
\* by its frame limit
C10_Witness ==
    /\ ~env.stdin_isatty
    /\ pc = "done"
    /\ hist.reason = "frames"
    /\ Steps = MaxFrames

\* Input Response has run in this step
Responded == pc = "respond" /\ pc' = "step"

\* a pattern step has run in this step
Stepped == pc = "step" /\ pc' # "step" /\ exc' = "None"

\* C11: Input Response with input_mode off, or with a sensor read that
\* returned no sample, leaves the AppState and the sink as they were and
\* raises nothing; the iteration goes on to its pattern step, which flushes
\* exactly one frame.
C11_NoSampleNoChange ==
    [][/\ (Responded /\ (state.input_mode = "off" \/ ~hist'.sample.has))
            => state' = state /\ strip' = strip /\ exc' = "None"
       /\ Stepped
            => strip'.frame = strip.frame + 1 /\ frame_count' = frame_count + 1]_vars

\* C11 witness: digital mode, the read returned nothing, the brightness is
\* still the value a '-' left, which neither sample value would give
C11_Witness ==
    /\ pc = "step"
    /\ state.input_mode = "digital"
    /\ ~hist.sample.has
    /\ 0 < state.brightness /\ state.brightness < state.max_brightness
    /\ strip.brightness = state.brightness
    /\ frame_count = 1

\* C12: in analog mode, with analog_max >= 1 and max_brightness in [0,255], a
\* sample of 0 or below gives brightness 0, a sample of analog_max or above
\* gives max_brightness, a sample in between gives
\* floor(sample * max_brightness / analog_max); the result is non-decreasing
\* in the sample and never above max_brightness.
C12_AnalogScaling ==
    [][(Responded /\ state.input_mode = "analog" /\ hist'.sample.has)
          => LET v == hist'.sample.v
                 am == state.analog_max
                 mb == state.max_brightness
             IN  /\ am >= 1 /\ mb \in 0..255
                 /\ state'.brightness =
                        IF v <= 0 THEN 0
                        ELSE IF v >= am THEN mb
                        ELSE (v * mb) \div am
                 /\ state'.brightness <= mb
                 /\ \A s1, s2 \in {x.v : x \in AnalogSamples} :
                        s1 <= s2 => analog_brightness(state, s1) <= analog_brightness(state, s2)]_vars

\* C13: in digital mode a sample that is present sets state.brightness to
\* max_brightness when it is true and to 0 when it is false, whatever '+' or
\* '-' left there; the sink brightness gets the same value in the same step,
\* no frame is flushed by that step, and the pattern step that follows flushes
\* its frame at that brightness.
C13_DigitalSetsBrightness ==
    [][/\ (Responded /\ state.input_mode = "digital" /\ hist'.sample.has)
            => /\ state'.brightness =
                     (IF hist'.sample.v > 0 THEN state.max_brightness ELSE 0)
               /\ strip'.brightness = state'.brightness
               /\ strip'.frame = strip.frame
       /\ (Stepped /\ state.input_mode = "digital" /\ hist.sample.has)
            => /\ strip'.frame = strip.frame + 1
               /\ strip'.brightness = state.brightness
               /\ state.brightness =
                     (IF hist.sample.v > 0 THEN state.max_brightness ELSE 0)]_vars

\* C13 witness: '-' was handled in this iteration, then a true sample put the
\* brightness of state and sink back at the ceiling
C13_Witness ==
    /\ pc = "step"
    /\ state.input_mode = "digital"
    /\ key = "-"
    /\ hist.sample = SomeInt(1)
    /\ state.max_brightness = 90
    /\ state.brightness = 90
    /\ strip.brightness = 90

\* main() has loaded the settings record in this step
Loaded == pc = "main" /\ pc' # "main" /\ (args.headless \/ ~has_non_interactive_cli_options(args))

\* the record's value for a field is absent, not a string, or not in choices
Unusable(value, choices) == value.ty # "str" \/ value.s \notin Range(choices)

\* C14: loading a settings record never fails; the state it yields has
\* pattern, speed, the three color selections and input_mode in their
\* enumerated sets; an absent, wrongly typed or out-of-range pattern becomes
\* Chase and the other fields their defaults; with emergency_only active the
\* pattern is Emergency SOS whatever the record says.
C14_LoadNeverFails ==
    [][Loaded
         => /\ exc' = "None" /\ pc' = "init"
            /\ state'.pattern \in Range(PATTERN_NAMES)
            /\ state'.speed \in Range(SPEED_LABELS)
            /\ state'.chase_color \in Range(CHASE_COLORS)
            /\ state'.random_palette \in Range(RANDOM_PALETTES)
            /\ state'.bounce_color \in Range(BOUNCE_COLORS)
            /\ state'.input_mode \in INPUT_MODES
            /\ state'.emergency_only => state'.pattern = "4"
            /\ (~state'.emergency_only /\ args.pattern = "None"
                  /\ Unusable(data.pattern, PATTERN_NAMES)) => state'.pattern = "1"
            /\ (args.speed = "None" /\ Unusable(data.speed, SPEED_LABELS))
                  => state'.speed = "2"
            /\ (args.chase_color = "None" /\ Unusable(data.chase_color, CHASE_COLORS))
                  => state'.chase_color = "1"
            /\ (args.pi_input_mode = "None" /\ ~data.input_is_dict)
                  => state'.input_mode = "off"]_vars

\* the positions of the non-black pixels of a buffer of n pixels
Lit(buf, n) == {i \in 0..(n - 1) : buf[i] # BLACK}

\* a Chase step has run in this step
ChaseStepped == pc = "step" /\ hist'.chase_steps = hist.chase_steps + 1

\* C15: the frame a Chase step flushes has exactly one non-black pixel, at
\* the value chase_position had before the step, whatever the buffer held
\* before and whichever color option is selected; while only Chase steps have
\* run, the k-th of them lights position k-1 (on five pixels 0,1,2,3,4).
C15_ChaseOneLit ==
    [][ChaseStepped
         => /\ strip'.frame = strip.frame + 1
            /\ Lit(strip'.flushed, env.led_count) = {state.chase_position}
            /\ strip'.pixels = strip'.flushed
            /\ (hist.chase_steps = Steps /\ Steps < env.led_count)
                  => state.chase_position = Steps]_vars

\* C15 witness: five pixels, five Chase steps and nothing else, the fifth
\* frame lights the last pixel only
C15_Witness ==
    /\ env.led_count = 5
    /\ hist.chase_steps = 5 /\ Steps = 5
    /\ strip.frame = 5
    /\ Lit(strip.flushed, 5) = {4}
    /\ state.chase_position = 0

\* a Bounce step has run in this step
BounceStepped == pc = "step" /\ hist'.bounce_steps = hist.bounce_steps + 1

\* the triangle wave 0,1,...,n-1,n-2,...,1,0,1,... of period 2(n-1)
Triangle(k, n) ==
    LET m == k % (2 * (n - 1)) IN IF m <= n - 1 THEN m ELSE 2 * (n - 1) - m

\* C16: on a strip of N >= 2 pixels the Bounce step number k+1 displays
\* position Triangle(k, N), i.e. 0,1,...,N-1,N-2,...,1,0,1,... with period
\* 2(N-1): one pixel per frame, consecutive displayed positions one apart (so
\* no end is displayed in two consecutive frames), and the step that flips
\* the direction also moves by the new direction.
C16_BounceTriangle ==
    [][(BounceStepped /\ env.led_count >= 2)
         => /\ Lit(strip'.flushed, env.led_count) = {state.bounce_position}
            /\ state.bounce_position = Triangle(hist.bounce_steps, env.led_count)
            /\ state'.bounce_position = Triangle(hist.bounce_steps + 1, env.led_count)
            /\ state'.bounce_position - state.bounce_position \in {-1, 1}
            /\ state'.bounce_direction \in {-1, 1}
            /\ state'.bounce_position = state.bounce_position + state'.bounce_direction]_vars

\* C16 witness: three pixels, five Bounce steps and nothing else (0,1,2,1,0
\* displayed), the fifth frame lights pixel 0 and the position is 1 again
C16_Witness ==
    /\ env.led_count = 3
    /\ hist.bounce_steps = 5 /\ Steps = 5
    /\ Lit(strip.flushed, 3) = {0}
    /\ state.bounce_position = 1
    /\ state.bounce_direction = 1

\* rainbow_offset advanced by 3 modulo 256
Advanced3(old, new) == new = (IF old + 3 > 255 THEN old + 3 - 256 ELSE old + 3)

\* C17: rainbow_offset is within [0,255] in every reachable state; a Chase or
\* Bounce step advances it by exactly 3 modulo 256 when the color selection
\* of that pattern is Rainbow and leaves it alone when the selection is a
\* fixed color; Random and Emergency SOS steps, and every other step of the
\* program, leave it alone.
C17_RainbowOffset ==
    /\ [](state.rainbow_offset \in 0..255)
    /\ [][IF ChaseStepped /\ state.chase_color = "4"
             THEN Advanced3(state.rainbow_offset, state'.rainbow_offset)
          ELSE IF BounceStepped /\ state.bounce_color = "4"
             THEN Advanced3(state.rainbow_offset, state'.rainbow_offset)
          ELSE state'.rainbow_offset = state.rainbow_offset]_vars

\* C17 witness: 86 rainbow Chase steps, the offset has wrapped from 255 to 2
C17_Witness ==
    /\ state.chase_color = "4"
    /\ hist.chase_steps = 86 /\ Steps = 86
    /\ state.rainbow_offset = 2

\* C18: for every position in [0,255] the red, green and blue values of
\* wheel(position) lie within [0,255] and sum to exactly 255; every position
\* the Chase and Bounce steps pass to wheel lies within [0,255], and the pixel
\* a Rainbow step flushes carries such a color.
\* (the first conjunct speaks of the function alone, not of the state)
C18_WheelChannels ==
    /\ \A position \in 0..255 :
            LET c == wheel_channels(position) IN
            /\ \A i \in 1..3 : c[i] \in 0..255
            /\ c[1] + c[2] + c[3] = 255
            /\ << Red(wheel(position)), Green(wheel(position)), Blue(wheel(position)) >> = c
    /\ [][/\ (ChaseStepped /\ state.chase_color = "4")
               => LET c == strip'.flushed[state.chase_position] IN
                  /\ WheelArg(state, state.chase_position) \in 0..255
                  /\ Red(c) + Green(c) + Blue(c) = 255
                  /\ Red(c) \in 0..255
          /\ (BounceStepped /\ state.bounce_color = "4" /\ env.led_count >= 2)
               => LET c == strip'.flushed[state.bounce_position] IN
                  /\ WheelArg(state, state.bounce_position) \in 0..255
                  /\ Red(c) + Green(c) + Blue(c) = 255
                  /\ Red(c) \in 0..255]_vars

\* C18 witness: the rainbow Chase step taken at offset 255 on pixel 1 passed
\* position 7 to wheel and flushed the color (234, 21, 0)
C18_Witness ==
    /\ state.chase_color = "4"
    /\ hist.chase_steps = 86
    /\ env.led_count = 2
    /\ strip.flushed[1] = Color(234, 21, 0)
    /\ strip.frame = 86

\* the delay get_delay looks up for pattern p at the current speed label
DelayOf(p) == get_delay([state EXCEPT !.pattern = p])

\* C19: at each of the three speed labels the delay looked up for Chase and
\* the delay looked up for Bounce are both greater than the delay looked up
\* for Random.
C19_ChaseBounceSlower ==
    Built => /\ \A s \in Range(SPEED_LABELS) :
                  /\ SPEED_MAP("1", s) > SPEED_MAP("2", s)
                  /\ SPEED_MAP("3", s) > SPEED_MAP("2", s)
             /\ DelayOf("1") > DelayOf("2") /\ DelayOf("3") > DelayOf("2")

\* C19 as amended: at each of the three speed labels the delay looked up for
\* Chase and the delay looked up for Bounce are both less than the delay
\* looked up for Random, and the delay the loop sleeps after a frame is the
\* one looked up for the pattern and speed label then selected.
C19_RandomSlowest ==
    Built => /\ \A s \in Range(SPEED_LABELS) :
                  /\ SPEED_MAP("1", s) < SPEED_MAP("2", s)
                  /\ SPEED_MAP("3", s) < SPEED_MAP("2", s)
             /\ DelayOf("1") < DelayOf("2") /\ DelayOf("3") < DelayOf("2")
             /\ (hist.delay # 0 /\ state.pattern = "2")
                   => hist.delay > DelayOf("1") /\ hist.delay > DelayOf("3")
             /\ (hist.delay # 0 /\ state.pattern \in {"1", "3"})
                   => hist.delay < DelayOf("2")

\* C19 witness: the loop has slept after a Random frame at speed Fast
C19_Witness ==
    /\ state.pattern = "2"
    /\ state.speed = "3"
    /\ hist.delay = 50
    /\ hist.random_steps > 0

\* handle_key has handled the key 'p' in this step
PressedP == pc = "poll" /\ pc' # "poll" /\ exc' = "None" /\ key' = "p"

\* the pattern after Chase, Random, Bounce in turn; SOS stays
AfterP(pattern) ==
    CASE pattern = "1" -> "2"
      [] pattern = "2" -> "3"
      [] pattern = "3" -> "1"
      [] pattern = "4" -> "4"

----------------------------------------------------------------------------
(* The digit keys and the pattern cycle as the shortcuts help states them *)

\* handle_key has handled the key k in this step
Pressed(k) == pc = "poll" /\ pc' # "poll" /\ exc' = "None" /\ key' = k

\* the cycle the help text gives for 'p': Chase -> Random -> Bounce -> SOS
HelpCycle(pattern) ==
    CASE pattern = "1" -> "2"
      [] pattern = "2" -> "3"
      [] pattern = "3" -> "4"
      [] pattern = "4" -> "1"

\* C21: as the runtime shortcuts help says, pressing '4' during a run sets
\* the active pattern to Emergency SOS, and 'p' follows the cycle Chase ->
\* Random -> Bounce -> SOS.
C21_HelpPatternKeys ==
    [][/\ Pressed("4") => state'.pattern = "4"
       /\ Pressed("p") /\ state.pattern \in {"1", "2", "3"}
            => state'.pattern = HelpCycle(state.pattern)]_vars

----------------------------------------------------------------------------
(* The speed key *)

\* the label after Slow, Medium, Fast in turn
AfterS(speed) ==
    CASE speed = "1" -> "2"
      [] speed = "2" -> "3"
      [] speed = "3" -> "1"

\* C22: 's' moves the speed Slow -> Medium -> Fast -> Slow, three presses give
\* the speed back, and no other field of the state changes; while the pattern
\* is Emergency SOS the delay of a frame is the fixed SOS delay before and
\* after an 's' press, and it is the delay the loop sleeps.
C22_SCycles ==
    /\ [](Built => /\ handle_key_state(handle_key_state(handle_key_state(state, "s"), "s"), "s") = state
                   /\ state.pattern = "4" /\ hist.delay # 0 => hist.delay = EMERGENCY_DELAY_MS)
    /\ [][Pressed("s")
            => /\ state' = [state EXCEPT !.speed = AfterS(state.speed)]
               /\ state.pattern = "4"
                    => /\ get_delay(state) = EMERGENCY_DELAY_MS
                       /\ get_delay(state') = EMERGENCY_DELAY_MS]_vars

\* C22 witness: in an Emergency SOS run 's' was pressed in each of three
\* iterations, the third press bringing the speed back to the one the run
\* began with, and the loop slept the SOS delay in between
C22_Witness ==
    /\ pc = "respond"
    /\ key = "s"
    /\ state.pattern = "4"
    /\ hist.sos_steps = 2
    /\ state.speed = hist.entry.speed

----------------------------------------------------------------------------
(* The color key *)

\* the selection after sel among the n selections "1" .. "n", with wrap
AfterC(sel, n) ==
    CASE sel = "1" -> "2"
      [] sel = "2" -> (IF n = 2 THEN "1" ELSE "3")
      [] sel = "3" -> (IF n = 3 THEN "1" ELSE "4")
      [] sel = "4" -> "1"

\* C23: 'c' moves on, with wrap, the selection of the active pattern only:
\* chase_color (4 colors) for Chase, random_palette (3 palettes) for Random,
\* bounce_color (4 colors) for Bounce; every other field of the state keeps
\* its value, and for Emergency SOS the whole state does.
C23_CCyclesActiveOnly ==
    [][Pressed("c")
         => state' =
              CASE state.pattern = "1" -> [state EXCEPT !.chase_color = AfterC(state.chase_color, 4)]
                [] state.pattern = "2" -> [state EXCEPT !.random_palette = AfterC(state.random_palette, 3)]
                [] state.pattern = "3" -> [state EXCEPT !.bounce_color = AfterC(state.bounce_color, 4)]
                [] OTHER -> state]_vars

\* C23 witness: Bounce is active with the last bounce color and 'c' wrapped it
\* to the first, the chase color and the palette being what they were
C23_Witness ==
    /\ pc = "respond"
    /\ key = "c"
    /\ state.pattern = "3"
    /\ hist.entry.bounce_color = "4"
    /\ state.bounce_color = "1"
    /\ state.chase_color = hist.entry.chase_color
    /\ state.random_palette = hist.entry.random_palette

----------------------------------------------------------------------------
(* The brightness keys *)

\* C24: '+' sets brightness to min(255, brightness + 16), '-' sets it to
\* max(0, brightness - 16); the same keystroke sets the sink's brightness to
\* the new state brightness, no other field of the state (max_brightness
\* among them) changes, and the pattern step of that iteration flushes its
\* frame with the sink's brightness equal to the state's.
C24_BrightnessKeys ==
    [][/\ Pressed("+")
            => /\ state' = [state EXCEPT !.brightness = Min(255, state.brightness + 16)]
               /\ strip'.brightness = state'.brightness
       /\ Pressed("-")
            => /\ state' = [state EXCEPT !.brightness = Max(0, state.brightness - 16)]
               /\ strip'.brightness = state'.brightness
       /\ Stepped /\ key \in {"+", "-"}
            => /\ strip.brightness = state.brightness
               /\ strip'.brightness = strip.brightness
               /\ strip'.frame = strip.frame + 1]_vars

\* C24 witness: '-' was pressed in the first iteration of a run without a
\* sensor, and the first frame has been flushed at the lowered brightness
C24_Witness ==
    /\ pc = "poll"
    /\ key = "-"
    /\ frame_count = 1
    /\ strip.frame = 1
    /\ state.input_mode = "off"
    /\ state.brightness = hist.entry.brightness - 16
    /\ strip.brightness = state.brightness
    /\ state.max_brightness = hist.entry.max_brightness

----------------------------------------------------------------------------
(* The frame line of the software sink *)

\* the glyph of a pixel: '.' for black, 'W' when all three channels are above
\* 180, else the letter of the greatest channel, R before G before B
Glyph(color) ==
    LET r == Red(color)
        g == Green(color)
        b == Blue(color)
        greatest == Max(r, Max(g, b))
    IN  IF color = BLACK THEN "."
        ELSE IF Min(r, Min(g, b)) > 180 THEN "W"
        ELSE IF r = greatest THEN "R"
        ELSE IF g = greatest THEN "G"
        ELSE "B"

\* the software sink has printed a frame as a plain line
PlainFrame == strip.kind = "virtual" /\ ~env.stdout_isatty /\ strip.frame > 0

\* C25: off a terminal the software sink prints a flushed frame as one line
\* "Frame %04d | " and N glyphs, one per pixel in index order, with no control
\* sequence; the first flush of an all-off strip of 4 pixels gives
\* "Frame 0001 | ....".
C25_FrameLine ==
    PlainFrame =>
        LET line == shown_lines(strip)[1] IN
        /\ Len(shown_lines(strip)) = 1
        /\ strip.written = NothingWritten
        /\ Len(line) = 13 + strip.count
        /\ SubSeq(line, 1, 6) = << "F", "r", "a", "m", "e", " " >>
        /\ 1000 * DigitValue(line[7]) + 100 * DigitValue(line[8])
             + 10 * DigitValue(line[9]) + DigitValue(line[10]) = strip.frame
        /\ SubSeq(line, 11, 13) = << " ", "|", " " >>
        /\ \A i \in 0..(strip.count - 1) : line[14 + i] = Glyph(strip.flushed[i])
        /\ (strip.frame = 1 /\ strip.count = 4 /\ AllBlack(strip.flushed, 4))
             => line = << "F", "r", "a", "m", "e", " ", "0", "0", "0", "1", " ", "|", " ", ".", ".", ".", "." >>

\* C25 witness: the first Random frame of a 4-pixel strip drew black for every
\* pixel and was printed as "Frame 0001 | ...."
C25_Witness ==
    /\ PlainFrame
    /\ hist.random_steps = 1
    /\ strip.frame = 1 /\ strip.count = 4
    /\ AllBlack(strip.flushed, 4)
    /\ shown_lines(strip) = << << "F", "r", "a", "m", "e", " ", "0", "0", "0", "1", " ", "|", " ", ".", ".", ".", "." >> >>

----------------------------------------------------------------------------
(* Redrawing a frame on a terminal *)

\* the rows of a terminal env.columns wide a written line of the given length
\* takes: the line wraps when it is longer than the terminal is wide
TerminalRows(length) ==
    IF length = 0 THEN 1 ELSE (length + env.columns - 1) \div env.columns

RECURSIVE SumRows(_)
SumRows(lines) ==
    IF lines = << >> THEN 0 ELSE TerminalRows(Len(Head(lines))) + SumRows(Tail(lines))

\* the rows the frame last shown by the strip s occupies; the cursor is left
\* on the row below them, in column 0
FrameRows(s) == SumRows(shown_lines(s))

\* nothing but frames is written in the loop: no keystroke poll, or a poll
\* that found no key
NothingPrinted == ~env.stdin_isatty \/ key = "None"

\* the software sink redraws a frame on a terminal in this step
Redrawn ==
    /\ Stepped
    /\ strip.kind = "virtual" /\ env.stdout_isatty
    /\ strip.has_animated
    /\ NothingPrinted

\* C26: on a terminal, with nothing else printed between frames, every frame
\* after the first moves the cursor up by exactly the rows the frame before
\* it occupies, so that its first line is written on the row the first line
\* of that frame is on: the render neither climbs nor scrolls.
C26_RedrawInPlace ==
    [][Redrawn => strip'.written.up = FrameRows(strip)]_vars

----------------------------------------------------------------------------
(* The frame counter of the sink *)

\* C27: every pattern step flushes the sink exactly once; with the software
\* sink neither start-up nor shutdown flushes, so its frame counter is at
\* every point the number of pattern steps the loop has executed: 1 for the
\* first frame, one more for each frame after it.
C27_FrameCounter ==
    /\ [](strip.kind = "virtual" => strip.frame = Steps)
    /\ [][Stepped => strip'.frame = strip.frame + 1]_vars

\* C27 witness: a software-sink run has produced two frames and has shut
\* down, and the frame counter is 2
C27_Witness ==
    /\ pc = "done"
    /\ strip.kind = "virtual"
    /\ strip.finished = 1
    /\ Steps = 2
    /\ strip.frame = 2

----------------------------------------------------------------------------
(* One keystroke, one Input Response, one pattern step per iteration *)

\* the keystroke poll of an iteration has run in this step
Polled == pc = "poll" /\ pc' # "poll" /\ exc' = "None"

\* the pattern whose step counter this step has moved
StepKind ==
    CASE hist'.chase_steps > hist.chase_steps -> "1"
      [] hist'.random_steps > hist.random_steps -> "2"
      [] hist'.bounce_steps > hist.bounce_steps -> "3"
      [] hist'.sos_steps > hist.sos_steps -> "4"
      [] OTHER -> "none"

\* C28: an iteration of the interactive loop reads at most one keystroke,
\* then, unless the key was 'q', applies Input Response and executes exactly
\* one pattern step, with or without a key; the step is the one of the
\* pattern the keystroke left, so a pattern key shows in the frame of the
\* iteration that read it.
C28_OneKeyOneStep ==
    /\ [][Polled
            => /\ key' = "None" => state' = state
               /\ key' # "q" <=> pc' = "respond"
               /\ key' \in {"1", "2", "3"} /\ ~state.emergency_only => state'.pattern = key'
               /\ Steps' = Steps]_vars
    /\ [][Responded => Steps' = Steps /\ state'.pattern = state.pattern /\ key' = key]_vars
    /\ [][Stepped
            => /\ Steps' = Steps + 1
               /\ StepKind = state.pattern
               /\ state'.pattern = state.pattern
               /\ key' = key
               /\ env.stdin_isatty => pc' \in {"poll", "restore"}]_vars

\* C28 witness: a run that began as Chase read the key '3' in its first
\* iteration, and the first frame of the run is a Bounce frame
C28_Witness ==
    /\ pc = "poll"
    /\ key = "3"
    /\ hist.entry.pattern = "1"
    /\ Steps = 1
    /\ hist.bounce_steps = 1
    /\ strip.frame = 1

----------------------------------------------------------------------------
(* What a pattern step may change in the AppState *)

\* the progress counters the step of a pattern assigns
Touched(pattern) ==
    CASE pattern = "1" -> {"chase_position", "rainbow_offset"}
      [] pattern = "2" -> {}
      [] pattern = "3" -> {"bounce_position", "bounce_direction", "rainbow_offset"}
      [] pattern = "4" -> {"emergency_step", "emergency_color_index"}

\* the counters no other pattern's step assigns
Own(pattern) == Touched(pattern) \ {"rainbow_offset"}

\* the records old and new agree on every field outside changed
SameExcept(old, new, changed) == \A f \in (DOMAIN old) \ changed : new[f] = old[f]

\* the step of the active pattern changes nothing but its counters, and the
\* keystroke poll and Input Response change no counter at all
StepFrame ==
    /\ Stepped => SameExcept(state, state', Touched(state.pattern))
    /\ Polled \/ Responded
         => \A p \in {"1", "2", "3", "4"} : \A f \in Touched(p) : state'[f] = state[f]

\* C29 as stated: a pattern step changes only its own progress counters, so
\* pattern, speed, selections and brightness survive every frame, and so do
\* all counters of the other patterns (rainbow_offset among those of Chase
\* and of Bounce): a pattern resumes from the counter values it had.
C29_CountersResume ==
    [][/\ StepFrame
       /\ Stepped => \A p \in {"1", "2", "3", "4"} \ {state.pattern} :
                        \A f \in Touched(p) : state'[f] = state[f]]_vars

\* C29 amended: as above, but a pattern resumes from the values of the
\* counters that are its own; rainbow_offset is shared by Chase and Bounce and
\* moves on while the other of the two runs in rainbow color.
C29_OwnCountersResume ==
    [][/\ StepFrame
       /\ Stepped => \A p \in {"1", "2", "3", "4"} \ {state.pattern} :
                        \A f \in Own(p) : state'[f] = state[f]]_vars

\* C29 witness: one Chase frame, then rainbow Bounce frames only, then the
\* key '1': the second Chase frame has lit pixel 1 and left the position at 2,
\* while rainbow_offset has moved with the Bounce frames
C29_Witness ==
    /\ pc = "poll"
    /\ key = "1"
    /\ state.bounce_color = "4"
    /\ hist.chase_steps = 2
    /\ hist.bounce_steps >= 1 /\ hist.random_steps = 0
    /\ state.chase_position = 2
    /\ state.rainbow_offset = 3 * hist.bounce_steps
    /\ strip.flushed[1] # BLACK

----------------------------------------------------------------------------
(* The relaunch command of Ctrl+O *)

\* the namespace parse_args gives the process started by the printed command
Relaunched(st, op) == parse_argv(RelaunchArgv(build_nohup_command(st, op)), NoArgs)

\* the settings of an AppState: all fields but the progress counters
Settings(st) ==
    [pattern |-> st.pattern, speed |-> st.speed, chase_color |-> st.chase_color,
     random_palette |-> st.random_palette, bounce_color |-> st.bounce_color,
     brightness |-> st.brightness, max_brightness |-> st.max_brightness,
     input_mode |-> st.input_mode, input_pin |-> st.input_pin,
     analog_path |-> st.analog_path, analog_max |-> st.analog_max,
     emergency_only |-> st.emergency_only]

\* the command printed for st and op starts a process whose state_from_args
\* gives the settings of st and the run limits op
RoundTrip(st, op) ==
    /\ Relaunched(st, op).ok
    /\ Settings(state_from_args_state(Relaunched(st, op).args)) = Settings(st)
    /\ state_from_args_options(Relaunched(st, op).args) = op

\* C30: Ctrl+O changes no field of the AppState or of the RunOptions and lets
\* the loop go on, and the command it prints encodes all current settings:
\* state_from_args on the flags of the command gives back pattern, speed,
\* the three selections, brightness, max_brightness, the input configuration,
\* emergency_only and the run limits.
C30_RelaunchRoundTrip ==
    [][Pressed(CTRL_O)
         => /\ state' = state
            /\ options' = options
            /\ pc' = "respond"
            /\ RoundTrip(state, options)]_vars

====
